---- MODULE Spec2Model ----
(***************************************************************************)
(* Model of crates/databas_core: the disk manager, the clock page cache    *)
(* with its pin guards, and the slotted table pages (leaf and interior).   *)
(* Pages are byte sequences; offsets in the source are 0-based, sequence   *)
(* indices here are 1-based (offset o is index o + 1).                     *)
(***************************************************************************)
EXTENDS Integers, Sequences, FiniteSets, TLC

(***************************************************************************)
(* Bounds of the model.                                                    *)
(***************************************************************************)
\* types::PAGE_SIZE, scaled down so that whole pages are explored bytewise.
PAGE_SIZE == 52
\* Largest number of pages the file grows to (header page included).
MaxPages == 3
\* Number of frames the page cache is constructed with.
FrameCount == 2
\* Largest pin count a frame reaches.
MaxPins == 2
\* Largest number of PinGuards forgotten without Drop.
MaxLeaked == 2

(***************************************************************************)
(* Program constants.                                                      *)
(***************************************************************************)
PAGE_CHECKSUM_SIZE == 4
PAGE_DATA_END == PAGE_SIZE - PAGE_CHECKSUM_SIZE
HEADER_PAGE_ID == 0
FIRST_DATA_PAGE_ID == 1
DATABASE_MAGIC == <<100, 97, 116, 97, 98, 97, 115, 32, 102, 111, 114, 109, 97, 116, 49, 0>>
MAGIC_OFFSET == 0
MAGIC_SIZE == Len(DATABASE_MAGIC)
PAGE_SIZE_OFFSET == MAGIC_OFFSET + MAGIC_SIZE
PAGE_COUNT_OFFSET == PAGE_SIZE_OFFSET + 2

(***************************************************************************)
(* Byte helpers: little-endian integers and slices of byte sequences.      *)
(***************************************************************************)
RECURSIVE to_le_bytes(_, _)
to_le_bytes(n, w) ==
    IF w = 0 THEN <<>> ELSE <<n % 256>> \o to_le_bytes(n \div 256, w - 1)

RECURSIVE from_le_bytes(_, _, _)
from_le_bytes(bytes, off, w) ==
    IF w = 0 THEN 0 ELSE bytes[off + 1] + 256 * from_le_bytes(bytes, off + 1, w - 1)

read_u16(bytes, off) == from_le_bytes(bytes, off, 2)
read_u64(bytes, off) == from_le_bytes(bytes, off, 8)

\* bytes[from..to) of the source, as a sequence
Slice(bytes, from, to) == SubSeq(bytes, from + 1, to)

\* bytes[off..off+len(src)].copy_from_slice(src)
CopyInto(bytes, off, src) ==
    SubSeq(bytes, 1, off) \o src \o SubSeq(bytes, off + Len(src) + 1, Len(bytes))

Zeros(n) == SubSeq([i \in 1..n |-> 0], 1, n)
ZeroPage == Zeros(PAGE_SIZE)

(***************************************************************************)
(* page_checksum.rs.  crc32_v2::crc32 is an external crate; it is modelled *)
(* by a position-weighted byte sum, a function of the data region alone    *)
(* that changes whenever one byte of the region changes.  For the page     *)
(* sizes explored the sum stays far below 2^32, so no reduction is needed. *)
(***************************************************************************)
RECURSIVE WeightedSum(_, _)
WeightedSum(bytes, n) ==
    IF n = 0 THEN 0 ELSE n * bytes[n] + WeightedSum(bytes, n - 1)

crc32(bytes) == WeightedSum(bytes, Len(bytes)) + 1

compute_page_checksum(page) == crc32(Slice(page, 0, PAGE_DATA_END))

stored_page_checksum(page) == from_le_bytes(page, PAGE_DATA_END, PAGE_CHECKSUM_SIZE)

write_page_checksum(page) ==
    CopyInto(page, PAGE_DATA_END, to_le_bytes(compute_page_checksum(page), PAGE_CHECKSUM_SIZE))

checksum_matches(page) == stored_page_checksum(page) = compute_page_checksum(page)

(***************************************************************************)
(* database_header.rs                                                      *)
(***************************************************************************)
DatabaseHeader_write(count) ==
    LET p1 == CopyInto(ZeroPage, MAGIC_OFFSET, DATABASE_MAGIC)
        p2 == CopyInto(p1, PAGE_SIZE_OFFSET, to_le_bytes(PAGE_SIZE, 2))
        p3 == CopyInto(p2, PAGE_COUNT_OFFSET, to_le_bytes(count, 8))
    IN  write_page_checksum(p3)

DatabaseHeader_init_new == DatabaseHeader_write(FIRST_DATA_PAGE_ID)

\* DatabaseHeader::read followed by DatabaseHeader::validate: "ok" or the reason
DatabaseHeader_validate(page, actual_page_count) ==
    IF Slice(page, MAGIC_OFFSET, MAGIC_OFFSET + MAGIC_SIZE) # DATABASE_MAGIC
    THEN "invalid magic"
    ELSE IF read_u16(page, PAGE_SIZE_OFFSET) # PAGE_SIZE
    THEN "invalid page size"
    ELSE IF read_u64(page, PAGE_COUNT_OFFSET) = 0
    THEN "page count must be at least one"
    ELSE IF read_u64(page, PAGE_COUNT_OFFSET) # actual_page_count
    THEN "page count does not match file size"
    ELSE "ok"

(***************************************************************************)
(* disk_manager.rs.  The file is a flat byte sequence.                     *)
(***************************************************************************)
page_offset(page_id) == page_id * PAGE_SIZE

\* File::set_len: truncate, or extend with zero bytes
set_len(f, size) ==
    IF size <= Len(f) THEN SubSeq(f, 1, size) ELSE f \o Zeros(size - Len(f))

\* seek(Start(offset)) then write_all(buf); a write past the end extends the file
write_all(f, offset, buf) ==
    LET g == IF offset + Len(buf) > Len(f) THEN set_len(f, offset + Len(buf)) ELSE f
    IN  CopyInto(g, offset, buf)

write_header_page(f, count) ==
    write_all(f, page_offset(HEADER_PAGE_ID), DatabaseHeader_write(count))

\* DiskManager::new on the bytes found at the path
\* mutant: the file is opened with truncate(true), so every open starts afresh
DiskManager_new_truncating(f) ==
    [status |-> "Ok",
     file |-> write_all(set_len(<<>>, PAGE_SIZE), 0, DatabaseHeader_init_new),
     page_count |-> 1]

DiskManager_new(f) ==
    IF Len(f) = 0
    THEN [status |-> "Ok",
          file |-> write_all(set_len(f, PAGE_SIZE), 0, DatabaseHeader_init_new),
          page_count |-> 1]
    ELSE IF Len(f) % PAGE_SIZE # 0
    THEN [status |-> "InvalidFileSize", file |-> f, page_count |-> 0]
    ELSE IF ~checksum_matches(Slice(f, 0, PAGE_SIZE))
    THEN [status |-> "InvalidPageChecksum", file |-> f, page_count |-> 0]
    ELSE IF DatabaseHeader_validate(Slice(f, 0, PAGE_SIZE), Len(f) \div PAGE_SIZE) # "ok"
    THEN [status |-> "InvalidDatabaseHeader", file |-> f, page_count |-> 0]
    ELSE [status |-> "Ok", file |-> f, page_count |-> Len(f) \div PAGE_SIZE]

\* mutant: the id returned is the page count after the call
DiskManager_new_page_returns_new_count(f, count) ==
    LET page_id == count
        new_page_id == page_id + 1
        f1 == set_len(f, page_offset(new_page_id))
        buf == write_page_checksum(ZeroPage)
        f2 == write_all(f1, page_offset(page_id), buf)
        f3 == write_header_page(f2, count + 1)
    IN  [status |-> "Ok", file |-> f3, page_count |-> count + 1, page_id |-> new_page_id]

DiskManager_new_page(f, count) ==
    LET page_id == count
        new_page_id == page_id + 1
        f1 == set_len(f, page_offset(new_page_id))
        buf == write_page_checksum(ZeroPage)
        f2 == write_all(f1, page_offset(page_id), buf)
        f3 == write_header_page(f2, count + 1)
    IN  [status |-> "Ok", file |-> f3, page_count |-> count + 1, page_id |-> page_id]

\* mutant: the page is handed back without its checksum being verified
DiskManager_read_page_unverified(f, count, page_id, buf) ==
    IF page_id >= count
    THEN [status |-> "InvalidPageId", buf |-> buf]
    ELSE [status |-> "Ok",
          buf |-> Slice(f, page_offset(page_id), page_offset(page_id) + PAGE_SIZE)]

\* buf is the caller's buffer; read_exact fills it before the checksum is verified
DiskManager_read_page(f, count, page_id, buf) ==
    IF page_id >= count
    THEN [status |-> "InvalidPageId", buf |-> buf]
    ELSE LET got == Slice(f, page_offset(page_id), page_offset(page_id) + PAGE_SIZE)
         IN  IF ~checksum_matches(got)
             THEN [status |-> "InvalidPageChecksum", buf |-> got]
             ELSE [status |-> "Ok", buf |-> got]

\* mutant: the bounds check admits page_id = page_count
DiskManager_write_page_off_by_one(f, count, page_id, buf) ==
    IF page_id > count
    THEN [status |-> "InvalidPageId", file |-> f]
    ELSE LET canonical_buf == write_page_checksum(buf)
         IN  [status |-> "Ok", file |-> write_all(f, page_offset(page_id), canonical_buf)]

\* mutant: the caller's buffer is written with the checksum bytes it came with
DiskManager_write_page_raw(f, count, page_id, buf) ==
    IF page_id >= count
    THEN [status |-> "InvalidPageId", file |-> f]
    ELSE [status |-> "Ok", file |-> write_all(f, page_offset(page_id), buf)]

DiskManager_write_page(f, count, page_id, buf) ==
    IF page_id >= count
    THEN [status |-> "InvalidPageId", file |-> f]
    ELSE LET canonical_buf == write_page_checksum(buf)
         IN  [status |-> "Ok", file |-> write_all(f, page_offset(page_id), canonical_buf)]

(***************************************************************************)
(* table_page/layout.rs.  Fallible functions return a record whose status  *)
(* is "Ok" or the name of the TablePageError variant; page is the buffer   *)
(* as the call leaves it, value is what Ok carries.                        *)
(***************************************************************************)
LEAF_PAGE_TYPE == 1
INTERIOR_PAGE_TYPE == 2
LEAF_HEADER_SIZE == 8
INTERIOR_HEADER_SIZE == 16
INTERIOR_RIGHTMOST_CHILD_OFFSET == 8
PAGE_TYPE_OFFSET == 0
CELL_COUNT_OFFSET == 2
CONTENT_START_OFFSET == 4
SLOT_WIDTH == 2

LEAF_SPEC == [page_type |-> LEAF_PAGE_TYPE, header_size |-> LEAF_HEADER_SIZE]
INTERIOR_SPEC == [page_type |-> INTERIOR_PAGE_TYPE, header_size |-> INTERIOR_HEADER_SIZE]

write_u16(page, offset, value) == CopyInto(page, offset, to_le_bytes(value, 2))
read_u64_at(page, offset) == from_le_bytes(page, offset, 8)
write_u64_at(page, offset, value) == CopyInto(page, offset, to_le_bytes(value, 8))

page_type(page) == page[PAGE_TYPE_OFFSET + 1]
cell_count(page) == read_u16(page, CELL_COUNT_OFFSET)
content_start(page) == read_u16(page, CONTENT_START_OFFSET)

validate_spec(spec) ==
    IF spec.header_size < CONTENT_START_OFFSET + 2 \/ spec.header_size > PAGE_SIZE
    THEN "CorruptPage" ELSE "Ok"

set_cell_count(page, count) == write_u16(page, CELL_COUNT_OFFSET, count)

set_content_start(page, start) ==
    IF start > 65535
    THEN [status |-> "CorruptPage", page |-> page]
    ELSE [status |-> "Ok", page |-> write_u16(page, CONTENT_START_OFFSET, start)]

init_empty(page, spec) ==
    IF validate_spec(spec) # "Ok"
    THEN [status |-> validate_spec(spec), page |-> page]
    ELSE LET filled == Zeros(Len(page))
             typed == CopyInto(filled, PAGE_TYPE_OFFSET, <<spec.page_type>>)
         IN  set_content_start(set_cell_count(typed, 0), PAGE_SIZE)

slot_dir_end_for_count(spec, count) ==
    LET slot_dir_end == spec.header_size + count * SLOT_WIDTH
    IN  IF slot_dir_end > PAGE_SIZE
        THEN [status |-> "CorruptPage", value |-> slot_dir_end]
        ELSE [status |-> "Ok", value |-> slot_dir_end]

validate(page, spec) ==
    IF validate_spec(spec) # "Ok" THEN validate_spec(spec)
    ELSE IF page_type(page) # spec.page_type THEN "InvalidPageType"
    ELSE LET slot_dir_end == slot_dir_end_for_count(spec, cell_count(page))
         IN  IF slot_dir_end.status # "Ok" THEN slot_dir_end.status
             ELSE IF \/ content_start(page) < slot_dir_end.value
                     \/ content_start(page) > PAGE_SIZE
             THEN "CorruptPage"
             ELSE "Ok"

free_space(page, spec) ==
    IF validate(page, spec) # "Ok"
    THEN [status |-> validate(page, spec), value |-> 0]
    ELSE [status |-> "Ok",
          value |-> content_start(page)
                        - slot_dir_end_for_count(spec, cell_count(page)).value]

slot_position(spec, slot_index) ==
    LET position == spec.header_size + slot_index * SLOT_WIDTH
    IN  IF position + SLOT_WIDTH > PAGE_SIZE
        THEN [status |-> "CorruptPage", value |-> position]
        ELSE [status |-> "Ok", value |-> position]

slot_offset(page, spec, slot_index) ==
    IF slot_index >= cell_count(page)
    THEN [status |-> "CorruptPage", value |-> 0]
    ELSE LET position == slot_position(spec, slot_index)
         IN  IF position.status # "Ok" THEN position
             ELSE [status |-> "Ok", value |-> read_u16(page, position.value)]

write_slot_offset_raw(page, spec, slot_index, cell_offset) ==
    LET position == slot_position(spec, slot_index)
    IN  IF position.status # "Ok"
        THEN [status |-> position.status, page |-> page]
        ELSE [status |-> "Ok", page |-> write_u16(page, position.value, cell_offset)]

\* Ok carries &page[cell_offset..]
cell_bytes_at_slot_impl(page, spec, slot_index) ==
    LET cell_offset == slot_offset(page, spec, slot_index)
    IN  IF cell_offset.status # "Ok"
        THEN [status |-> cell_offset.status, value |-> <<>>]
        ELSE IF cell_offset.value < content_start(page) \/ cell_offset.value >= PAGE_SIZE
        THEN [status |-> "CorruptCell", value |-> <<>>]
        ELSE [status |-> "Ok", value |-> Slice(page, cell_offset.value, PAGE_SIZE)]

cell_bytes_at_slot(page, spec, slot_index) ==
    IF validate(page, spec) # "Ok"
    THEN [status |-> validate(page, spec), value |-> <<>>]
    ELSE cell_bytes_at_slot_impl(page, spec, slot_index)

\* layout::cell_bytes_at_slot_on_valid_page: cell_bytes_at_slot for a caller that
\* has validated the page
cell_bytes_at_slot_on_valid_page(page, spec, slot_index) ==
    cell_bytes_at_slot_impl(page, spec, slot_index)

\* status "SpaceError" is Ok(Err(SpaceError { needed, available }))
try_append_cell(page, spec, cell) ==
    IF validate(page, spec) # "Ok"
    THEN [status |-> validate(page, spec), page |-> page, value |-> 0,
          needed |-> 0, available |-> 0]
    ELSE IF Len(cell) > 65535
    THEN [status |-> "CellTooLarge", page |-> page, value |-> 0,
          needed |-> 0, available |-> 0]
    ELSE LET cell_len == Len(cell)
             slot_dir_end_after == slot_dir_end_for_count(spec, cell_count(page))
             start == content_start(page)
             available == IF start >= slot_dir_end_after.value
                          THEN start - slot_dir_end_after.value ELSE 0
             new_start == start - cell_len
         IN  IF slot_dir_end_after.status # "Ok"
             THEN [status |-> slot_dir_end_after.status, page |-> page, value |-> 0,
                   needed |-> 0, available |-> 0]
             ELSE IF cell_len > available
             THEN [status |-> "SpaceError", page |-> page, value |-> 0,
                   needed |-> cell_len, available |-> available]
             ELSE LET r == set_content_start(CopyInto(page, new_start, cell), new_start)
                  IN  [status |-> r.status, page |-> r.page, value |-> new_start,
                       needed |-> 0, available |-> 0]

\* mutant: the cell is appended without comparing its length with the free space
try_append_cell_for_insert_unchecked(page, spec, cell) ==
    IF validate(page, spec) # "Ok"
    THEN [status |-> validate(page, spec), page |-> page, value |-> 0,
          needed |-> 0, available |-> 0]
    ELSE LET new_start == content_start(page) - Len(cell)
             r == set_content_start(CopyInto(page, new_start, cell), new_start)
         IN  [status |-> r.status, page |-> r.page, value |-> new_start,
              needed |-> 0, available |-> 0]

try_append_cell_for_insert(page, spec, cell) ==
    IF validate(page, spec) # "Ok"
    THEN [status |-> validate(page, spec), page |-> page, value |-> 0,
          needed |-> 0, available |-> 0]
    ELSE IF Len(cell) > 65535
    THEN [status |-> "CellTooLarge", page |-> page, value |-> 0,
          needed |-> 0, available |-> 0]
    ELSE LET cell_len == Len(cell)
             required_count == cell_count(page) + 1
             slot_dir_end_after == slot_dir_end_for_count(spec, required_count)
             start == content_start(page)
             available == IF start >= slot_dir_end_after.value
                          THEN start - slot_dir_end_after.value ELSE 0
             new_start == start - cell_len
         IN  IF slot_dir_end_after.status # "Ok"
             THEN [status |-> slot_dir_end_after.status, page |-> page, value |-> 0,
                   needed |-> 0, available |-> 0]
             ELSE IF cell_len > available
             THEN [status |-> "SpaceError", page |-> page, value |-> 0,
                   needed |-> cell_len, available |-> available]
             ELSE LET r == set_content_start(CopyInto(page, new_start, cell), new_start)
                  IN  [status |-> r.status, page |-> r.page, value |-> new_start,
                       needed |-> 0, available |-> 0]

\* layout::try_append_cell_with_writer: try_append_cell, the cell bytes produced
\* by the caller's writer into the reserved region
try_append_cell_with_writer(page, spec, cell_len, cell) ==
    try_append_cell(page, spec, cell)

\* layout::try_append_cell_with_writer_for_insert
try_append_cell_with_writer_for_insert(page, spec, cell_len, cell) ==
    try_append_cell_for_insert(page, spec, cell)

set_slot_offset(page, spec, slot_index, cell_offset) ==
    IF validate(page, spec) # "Ok"
    THEN [status |-> validate(page, spec), page |-> page]
    ELSE IF slot_index >= cell_count(page)
    THEN [status |-> "CorruptPage", page |-> page]
    ELSE write_slot_offset_raw(page, spec, slot_index, cell_offset)

\* insert_slot's loop: for slot in (insert_index..cell_count).rev(), from slot down
RECURSIVE shift_slots_up(_, _, _, _)
shift_slots_up(page, spec, slot, insert_index) ==
    IF slot < insert_index
    THEN [status |-> "Ok", page |-> page]
    ELSE LET offset == slot_offset(page, spec, slot)
         IN  IF offset.status # "Ok"
             THEN [status |-> offset.status, page |-> page]
             ELSE LET w == write_slot_offset_raw(page, spec, slot + 1, offset.value)
                  IN  IF w.status # "Ok" THEN w
                      ELSE shift_slots_up(w.page, spec, slot - 1, insert_index)

\* mutant: the new slot is always placed after the last slot
insert_slot_at_end(page, spec, insert_index, cell_offset) ==
    IF validate(page, spec) # "Ok"
    THEN [status |-> validate(page, spec), page |-> page]
    ELSE LET count == cell_count(page)
             new_count == count + 1
             slot_dir_end_after == slot_dir_end_for_count(spec, new_count)
         IN  IF slot_dir_end_after.status # "Ok"
             THEN [status |-> slot_dir_end_after.status, page |-> page]
             ELSE IF slot_dir_end_after.value > content_start(page)
             THEN [status |-> "CorruptPage", page |-> page]
             ELSE LET appended == write_slot_offset_raw(page, spec, count, cell_offset)
                  IN  [status |-> "Ok", page |-> set_cell_count(appended.page, new_count)]

insert_slot(page, spec, insert_index, cell_offset) ==
    IF validate(page, spec) # "Ok"
    THEN [status |-> validate(page, spec), page |-> page]
    ELSE LET count == cell_count(page)
             new_count == count + 1
             slot_dir_end_after == slot_dir_end_for_count(spec, new_count)
         IN  IF insert_index > count
             THEN [status |-> "CorruptPage", page |-> page]
             ELSE IF slot_dir_end_after.status # "Ok"
             THEN [status |-> slot_dir_end_after.status, page |-> page]
             ELSE IF slot_dir_end_after.value > content_start(page)
             THEN [status |-> "CorruptPage", page |-> page]
             ELSE LET shifted == shift_slots_up(page, spec, count - 1, insert_index)
                  IN  IF shifted.status # "Ok" THEN shifted
                      ELSE LET slot_written == write_slot_offset_raw(shifted.page, spec,
                                                                 insert_index, cell_offset)
                           IN  IF slot_written.status # "Ok" THEN slot_written
                               ELSE IF new_count > 65535
                               THEN [status |-> "CorruptPage", page |-> slot_written.page]
                               ELSE [status |-> "Ok",
                                     page |-> set_cell_count(slot_written.page, new_count)]

\* mutant: the slots behind the removed one are not moved
shift_slots_down_skipped(page, spec, slot, last) ==
    [status |-> "Ok", page |-> page]

\* remove_slot's loop: for slot in remove_index..(cell_count - 1)
RECURSIVE shift_slots_down(_, _, _, _)
shift_slots_down(page, spec, slot, last) ==
    IF slot >= last
    THEN [status |-> "Ok", page |-> page]
    ELSE LET next_offset == slot_offset(page, spec, slot + 1)
         IN  IF next_offset.status # "Ok"
             THEN [status |-> next_offset.status, page |-> page]
             ELSE LET w == write_slot_offset_raw(page, spec, slot, next_offset.value)
                  IN  IF w.status # "Ok" THEN w
                      ELSE shift_slots_down(w.page, spec, slot + 1, last)

remove_slot(page, spec, remove_index) ==
    IF validate(page, spec) # "Ok"
    THEN [status |-> validate(page, spec), page |-> page]
    ELSE LET count == cell_count(page)
         IN  IF remove_index >= count
             THEN [status |-> "CorruptPage", page |-> page]
             ELSE LET shifted == shift_slots_down(page, spec, remove_index, count - 1)
                  IN  IF shifted.status # "Ok" THEN shifted
                      ELSE LET cleared == write_slot_offset_raw(shifted.page, spec, count - 1, 0)
                           IN  IF cleared.status # "Ok" THEN cleared
                               ELSE [status |-> "Ok",
                                     page |-> set_cell_count(cleared.page, count - 1)]

(***************************************************************************)
(* table_page/leaf.rs and table_page/interior.rs: cells.                   *)
(***************************************************************************)
PAYLOAD_LEN_SIZE == 2
ROW_ID_SIZE == 8
LEAF_CELL_PREFIX_SIZE == PAYLOAD_LEN_SIZE + ROW_ID_SIZE
LEFT_CHILD_SIZE == 8
INTERIOR_CELL_SIZE == LEFT_CHILD_SIZE + ROW_ID_SIZE

leaf_cell_len(cell) ==
    IF Len(cell) < LEAF_CELL_PREFIX_SIZE
    THEN [status |-> "CorruptPage", value |-> 0]
    ELSE LET cell_len == LEAF_CELL_PREFIX_SIZE + read_u16(cell, 0)
         IN  IF cell_len > Len(cell)
             THEN [status |-> "CorruptPage", value |-> 0]
             ELSE [status |-> "Ok", value |-> cell_len]

leaf_row_id_from_cell(cell) ==
    IF Len(cell) < LEAF_CELL_PREFIX_SIZE
    THEN [status |-> "CorruptPage", value |-> 0]
    ELSE [status |-> "Ok", value |-> read_u64(cell, PAYLOAD_LEN_SIZE)]

leaf_cell_encoded_len(payload) ==
    IF Len(payload) > 65535
    THEN [status |-> "CellTooLarge", value |-> Len(payload)]
    ELSE [status |-> "Ok", value |-> LEAF_CELL_PREFIX_SIZE + Len(payload)]

\* the bytes the writer closure of try_append_leaf_cell puts into the cell
leaf_cell_writer(row_id, payload) ==
    to_le_bytes(Len(payload), PAYLOAD_LEN_SIZE) \o to_le_bytes(row_id, ROW_ID_SIZE) \o payload

interior_cell_len(cell) ==
    IF Len(cell) < INTERIOR_CELL_SIZE
    THEN [status |-> "CorruptPage", value |-> 0]
    ELSE [status |-> "Ok", value |-> INTERIOR_CELL_SIZE]

interior_row_id_from_cell(cell) ==
    IF Len(cell) < INTERIOR_CELL_SIZE
    THEN [status |-> "CorruptPage", value |-> 0]
    ELSE [status |-> "Ok", value |-> read_u64(cell, LEFT_CHILD_SIZE)]

encode_interior_cell(left_child, row_id) ==
    to_le_bytes(left_child, LEFT_CHILD_SIZE) \o to_le_bytes(row_id, ROW_ID_SIZE)

\* the cell_len and row_id_from_cell functions that go with a page kind
cell_len_for(spec, cell) ==
    IF spec.page_type = LEAF_PAGE_TYPE THEN leaf_cell_len(cell) ELSE interior_cell_len(cell)

row_id_from_cell_for(spec, cell) ==
    IF spec.page_type = LEAF_PAGE_TYPE
    THEN leaf_row_id_from_cell(cell) ELSE interior_row_id_from_cell(cell)

(***************************************************************************)
(* Row-id lookup.  status is "Found" (value: the slot), "NotFound" (value: *)
(* the insertion index) or an error.                                       *)
(***************************************************************************)
\* the while loop of find_interior_row_id
RECURSIVE binary_search(_, _, _, _, _)
binary_search(page, spec, row_id, left, right) ==
    IF left >= right
    THEN [status |-> "NotFound", value |-> left]
    ELSE LET mid == left + ((right - left) \div 2)
             cell == cell_bytes_at_slot_on_valid_page(page, spec, mid)
             current_row_id == row_id_from_cell_for(spec, cell.value)
         IN  IF cell.status # "Ok" THEN [status |-> cell.status, value |-> mid]
             ELSE IF current_row_id.status # "Ok"
             THEN [status |-> "CorruptCell", value |-> mid]
             ELSE IF current_row_id.value < row_id
             THEN binary_search(page, spec, row_id, mid + 1, right)
             ELSE IF current_row_id.value > row_id
             THEN binary_search(page, spec, row_id, left, mid)
             ELSE [status |-> "Found", value |-> mid]

find_interior_row_id(page, row_id) ==
    IF validate(page, INTERIOR_SPEC) # "Ok"
    THEN [status |-> validate(page, INTERIOR_SPEC), value |-> 0]
    ELSE binary_search(page, INTERIOR_SPEC, row_id, 0, cell_count(page))

\* layout::find_row_id: binary search across the slots of a validated page
find_row_id(page, spec, row_id) ==
    IF validate(page, spec) # "Ok"
    THEN [status |-> validate(page, spec), value |-> 0]
    ELSE binary_search(page, spec, row_id, 0, cell_count(page))

(***************************************************************************)
(* Defragmentation.                                                        *)
(***************************************************************************)
\* first loop of defragment_interior_page: the live cells in slot order
RECURSIVE collect_cells(_, _, _, _)
collect_cells(page, spec, slot, count) ==
    IF slot >= count
    THEN [status |-> "Ok", cells |-> <<>>]
    ELSE LET cell == cell_bytes_at_slot_on_valid_page(page, spec, slot)
             cell_len == cell_len_for(spec, cell.value)
             rest == collect_cells(page, spec, slot + 1, count)
         IN  IF cell.status # "Ok" THEN [status |-> cell.status, cells |-> <<>>]
             ELSE IF cell_len.status # "Ok" THEN [status |-> "CorruptCell", cells |-> <<>>]
             ELSE IF rest.status # "Ok" THEN rest
             ELSE [status |-> "Ok",
                   cells |-> <<SubSeq(cell.value, 1, cell_len.value)>> \o rest.cells]

\* mutant: every cell appended again gets the first slot of the directory
RECURSIVE reappend_cells_at_front(_, _, _, _)
reappend_cells_at_front(page, spec, cells, slot) ==
    IF slot >= Len(cells)
    THEN [status |-> "Ok", page |-> page]
    ELSE LET on_inserted(inserted) ==
                 IF inserted.status # "Ok" THEN inserted
                 ELSE reappend_cells_at_front(inserted.page, spec, cells, slot + 1)
             on_appended(appended) ==
                 IF appended.status = "SpaceError"
                 THEN [status |-> "CorruptPage", page |-> appended.page]
                 ELSE IF appended.status # "Ok"
                 THEN [status |-> appended.status, page |-> appended.page]
                 ELSE on_inserted(insert_slot(appended.page, spec, 0, appended.value))
         IN  on_appended(try_append_cell_for_insert(page, spec, cells[slot + 1]))

\* second loop of defragment_interior_page: append the cells again, slot by slot
RECURSIVE reappend_cells(_, _, _, _)
reappend_cells(page, spec, cells, slot) ==
    IF slot >= Len(cells)
    THEN [status |-> "Ok", page |-> page]
    ELSE LET on_inserted(inserted) ==
                 IF inserted.status # "Ok" THEN inserted
                 ELSE reappend_cells(inserted.page, spec, cells, slot + 1)
             on_appended(appended) ==
                 IF appended.status = "SpaceError"
                 THEN [status |-> "CorruptPage", page |-> appended.page]
                 ELSE IF appended.status # "Ok"
                 THEN [status |-> appended.status, page |-> appended.page]
                 ELSE on_inserted(insert_slot(appended.page, spec, slot, appended.value))
         IN  on_appended(try_append_cell_for_insert(page, spec, cells[slot + 1]))

\* mutant: the rightmost child is not written back after the page is emptied
defragment_interior_page_drops_rightmost(page) ==
    IF validate(page, INTERIOR_SPEC) # "Ok"
    THEN [status |-> validate(page, INTERIOR_SPEC), page |-> page]
    ELSE LET rewrite(collected, emptied) ==
                 IF collected.status # "Ok"
                 THEN [status |-> collected.status, page |-> page]
                 ELSE IF emptied.status # "Ok" THEN emptied
                 ELSE reappend_cells(emptied.page, INTERIOR_SPEC, collected.cells, 0)
         IN  rewrite(collect_cells(page, INTERIOR_SPEC, 0, cell_count(page)),
                     init_empty(page, INTERIOR_SPEC))

defragment_interior_page(page) ==
    IF validate(page, INTERIOR_SPEC) # "Ok"
    THEN [status |-> validate(page, INTERIOR_SPEC), page |-> page]
    ELSE LET rightmost_child == read_u64_at(page, INTERIOR_RIGHTMOST_CHILD_OFFSET)
             rewrite(collected, emptied) ==
                 IF collected.status # "Ok"
                 THEN [status |-> collected.status, page |-> page]
                 ELSE IF emptied.status # "Ok" THEN emptied
                 ELSE reappend_cells(write_u64_at(emptied.page,
                                                  INTERIOR_RIGHTMOST_CHILD_OFFSET,
                                                  rightmost_child),
                                     INTERIOR_SPEC, collected.cells, 0)
         IN  rewrite(collect_cells(page, INTERIOR_SPEC, 0, cell_count(page)),
                     init_empty(page, INTERIOR_SPEC))

\* mutant: the compaction validates the page and reclaims nothing
defragment_keeps_dead_space(page, spec) ==
    [status |-> validate(page, spec), page |-> page]

\* layout::defragment: copy the live cells in slot order, init the page again,
\* append the cells again in slot order and rewrite the slot directory
defragment(page, spec) ==
    IF validate(page, spec) # "Ok"
    THEN [status |-> validate(page, spec), page |-> page]
    ELSE LET rewrite(collected, emptied) ==
                 IF collected.status # "Ok"
                 THEN [status |-> collected.status, page |-> page]
                 ELSE IF emptied.status # "Ok" THEN emptied
                 ELSE reappend_cells(emptied.page, spec, collected.cells, 0)
         IN  rewrite(collect_cells(page, spec, 0, cell_count(page)), init_empty(page, spec))

(***************************************************************************)
(* table_page/leaf.rs: operations.  search returns value = <<>> for None   *)
(* and <<payload>> for Some(cell).                                         *)
(***************************************************************************)
decode_leaf_cell_at_slot(page, slot_index) ==
    LET cell == cell_bytes_at_slot(page, LEAF_SPEC, slot_index)
        cell_len == leaf_cell_len(cell.value)
    IN  IF cell.status # "Ok" THEN [status |-> cell.status, row_id |-> 0, payload |-> <<>>]
        ELSE IF cell_len.status # "Ok"
        THEN [status |-> "CorruptCell", row_id |-> 0, payload |-> <<>>]
        ELSE [status |-> "Ok",
              row_id |-> read_u64(cell.value, PAYLOAD_LEN_SIZE),
              payload |-> Slice(cell.value, LEAF_CELL_PREFIX_SIZE,
                                LEAF_CELL_PREFIX_SIZE + read_u16(cell.value, 0))]

TableLeafPageRef_search(page, row_id) ==
    LET found == find_row_id(page, LEAF_SPEC, row_id)
    IN  IF found.status = "NotFound" THEN [status |-> "Ok", value |-> <<>>]
        ELSE IF found.status # "Found" THEN [status |-> found.status, value |-> <<>>]
        ELSE LET cell == decode_leaf_cell_at_slot(page, found.value)
             IN  IF cell.status # "Ok" THEN [status |-> cell.status, value |-> <<>>]
                 ELSE [status |-> "Ok", value |-> <<cell.payload>>]

try_append_leaf_cell(page, row_id, payload) ==
    LET cell_len == leaf_cell_encoded_len(payload)
    IN  IF cell_len.status # "Ok"
        THEN [status |-> cell_len.status, page |-> page, value |-> 0,
              needed |-> 0, available |-> 0]
        ELSE try_append_cell_with_writer(page, LEAF_SPEC, cell_len.value,
                                         leaf_cell_writer(row_id, payload))

try_append_leaf_cell_for_insert(page, row_id, payload) ==
    LET cell_len == leaf_cell_encoded_len(payload)
    IN  IF cell_len.status # "Ok"
        THEN [status |-> cell_len.status, page |-> page, value |-> 0,
              needed |-> 0, available |-> 0]
        ELSE try_append_cell_with_writer_for_insert(page, LEAF_SPEC, cell_len.value,
                                                    leaf_cell_writer(row_id, payload))

\* for_insert selects the try_append function the caller passes
\* mutant: a first append that finds no space fails at once, without compaction
write_leaf_cell_without_retry(page, row_id, payload, for_insert) ==
    LET try_append(p) ==
            IF for_insert THEN try_append_leaf_cell_for_insert(p, row_id, payload)
            ELSE try_append_leaf_cell(p, row_id, payload)
        on_first(first) ==
            IF first.status = "SpaceError"
            THEN [status |-> "PageFull", page |-> first.page, value |-> 0]
            ELSE [status |-> first.status, page |-> first.page, value |-> first.value]
    IN  on_first(try_append(page))

write_leaf_cell_with_retry(page, row_id, payload, for_insert) ==
    LET try_append(p) ==
            IF for_insert THEN try_append_leaf_cell_for_insert(p, row_id, payload)
            ELSE try_append_leaf_cell(p, row_id, payload)
        on_second(second) ==
            IF second.status = "SpaceError"
            THEN [status |-> "PageFull", page |-> second.page, value |-> 0]
            ELSE [status |-> second.status, page |-> second.page, value |-> second.value]
        on_compacted(compacted) ==
            IF compacted.status # "Ok"
            THEN [status |-> compacted.status, page |-> compacted.page, value |-> 0]
            ELSE on_second(try_append(compacted.page))
        on_first(first) ==
            IF first.status = "Ok"
            THEN [status |-> "Ok", page |-> first.page, value |-> first.value]
            ELSE IF first.status # "SpaceError"
            THEN [status |-> first.status, page |-> first.page, value |-> 0]
            ELSE on_compacted(defragment(page, LEAF_SPEC))
    IN  on_first(try_append(page))

\* mutant: the cell is written before the duplicate check
TableLeafPageMut_insert_writes_first(page, row_id, payload) ==
    LET written == write_leaf_cell_with_retry(page, row_id, payload, TRUE)
        on_found(found) ==
            IF found.status = "Found"
            THEN [status |-> "DuplicateRowId", page |-> written.page]
            ELSE IF found.status # "NotFound" THEN [status |-> found.status, page |-> page]
            ELSE IF written.status # "Ok"
            THEN [status |-> written.status, page |-> written.page]
            ELSE insert_slot(written.page, LEAF_SPEC, found.value, written.value)
    IN  on_found(find_row_id(page, LEAF_SPEC, row_id))

TableLeafPageMut_insert(page, row_id, payload) ==
    LET on_written(cell_offset, insertion_index) ==
            IF cell_offset.status # "Ok"
            THEN [status |-> cell_offset.status, page |-> cell_offset.page]
            ELSE insert_slot(cell_offset.page, LEAF_SPEC, insertion_index, cell_offset.value)
        on_found(found) ==
            IF found.status = "Found" THEN [status |-> "DuplicateRowId", page |-> page]
            ELSE IF found.status # "NotFound" THEN [status |-> found.status, page |-> page]
            ELSE on_written(write_leaf_cell_with_retry(page, row_id, payload, TRUE),
                            found.value)
    IN  on_found(find_row_id(page, LEAF_SPEC, row_id))

\* mutant: the replacement cell is appended and the slot is left on the old cell
TableLeafPageMut_update_keeps_slot(page, row_id, payload) ==
    LET on_written(cell_offset) ==
            [status |-> cell_offset.status, page |-> cell_offset.page]
        on_found(found) ==
            IF found.status = "NotFound" THEN [status |-> "RowIdNotFound", page |-> page]
            ELSE IF found.status # "Found" THEN [status |-> found.status, page |-> page]
            ELSE on_written(write_leaf_cell_with_retry(page, row_id, payload, FALSE))
    IN  on_found(find_row_id(page, LEAF_SPEC, row_id))

\* mutant: every update appends the new cell and moves the slot to it
TableLeafPageMut_update_always_appends(page, row_id, payload) ==
    LET on_written(cell_offset, slot_index) ==
            IF cell_offset.status # "Ok"
            THEN [status |-> cell_offset.status, page |-> cell_offset.page]
            ELSE set_slot_offset(cell_offset.page, LEAF_SPEC, slot_index, cell_offset.value)
        on_found(found) ==
            IF found.status = "NotFound" THEN [status |-> "RowIdNotFound", page |-> page]
            ELSE IF found.status # "Found" THEN [status |-> found.status, page |-> page]
            ELSE on_written(write_leaf_cell_with_retry(page, row_id, payload, FALSE),
                            found.value)
    IN  on_found(find_row_id(page, LEAF_SPEC, row_id))

TableLeafPageMut_update(page, row_id, payload) ==
    LET on_written(cell_offset, slot_index) ==
            IF cell_offset.status # "Ok"
            THEN [status |-> cell_offset.status, page |-> cell_offset.page]
            ELSE set_slot_offset(cell_offset.page, LEAF_SPEC, slot_index, cell_offset.value)
        in_place(cell_offset) ==
            IF cell_offset.status # "Ok"
            THEN [status |-> cell_offset.status, page |-> page]
            ELSE [status |-> "Ok",
                  page |-> CopyInto(page, cell_offset.value,
                                    leaf_cell_writer(row_id, payload))]
        on_cell(slot_index, existing_cell, new_len) ==
            LET existing_len == leaf_cell_len(existing_cell.value)
            IN  IF existing_cell.status # "Ok"
                THEN [status |-> existing_cell.status, page |-> page]
                ELSE IF existing_len.status # "Ok"
                THEN [status |-> "CorruptCell", page |-> page]
                ELSE IF new_len.status # "Ok" THEN [status |-> new_len.status, page |-> page]
                ELSE IF existing_len.value = new_len.value
                THEN in_place(slot_offset(page, LEAF_SPEC, slot_index))
                ELSE on_written(write_leaf_cell_with_retry(page, row_id, payload, FALSE),
                                slot_index)
        on_found(found) ==
            IF found.status = "NotFound" THEN [status |-> "RowIdNotFound", page |-> page]
            ELSE IF found.status # "Found" THEN [status |-> found.status, page |-> page]
            ELSE on_cell(found.value, cell_bytes_at_slot(page, LEAF_SPEC, found.value),
                         leaf_cell_encoded_len(payload))
    IN  on_found(find_row_id(page, LEAF_SPEC, row_id))

TableLeafPageMut_delete(page, row_id) ==
    LET on_found(found) ==
            IF found.status = "NotFound" THEN [status |-> "RowIdNotFound", page |-> page]
            ELSE IF found.status # "Found" THEN [status |-> found.status, page |-> page]
            ELSE remove_slot(page, LEAF_SPEC, found.value)
    IN  on_found(find_row_id(page, LEAF_SPEC, row_id))

TableLeafPageMut_defragment(page) == defragment(page, LEAF_SPEC)

(***************************************************************************)
(* table_page/interior.rs: operations.  search returns value = <<>> for    *)
(* None and <<left_child>> for Some(cell).                                 *)
(***************************************************************************)
decode_interior_cell_at_slot(page, slot_index) ==
    LET cell == cell_bytes_at_slot(page, INTERIOR_SPEC, slot_index)
        cell_len == interior_cell_len(cell.value)
    IN  IF cell.status # "Ok" THEN [status |-> cell.status, left_child |-> 0, row_id |-> 0]
        ELSE IF cell_len.status # "Ok"
        THEN [status |-> "CorruptCell", left_child |-> 0, row_id |-> 0]
        ELSE [status |-> "Ok",
              left_child |-> read_u64(cell.value, 0),
              row_id |-> read_u64(cell.value, LEFT_CHILD_SIZE)]

TableInteriorPageRef_search(page, row_id) ==
    LET found == find_interior_row_id(page, row_id)
    IN  IF found.status = "NotFound" THEN [status |-> "Ok", value |-> <<>>]
        ELSE IF found.status # "Found" THEN [status |-> found.status, value |-> <<>>]
        ELSE LET cell == decode_interior_cell_at_slot(page, found.value)
             IN  IF cell.status # "Ok" THEN [status |-> cell.status, value |-> <<>>]
                 ELSE [status |-> "Ok", value |-> <<cell.left_child>>]

\* a routing that only follows exact separator matches
TableInteriorPageRef_child_for_row_id_exact_only(page, row_id) ==
    LET found == find_interior_row_id(page, row_id)
    IN  IF found.status \notin {"Found", "NotFound"}
        THEN [status |-> found.status, value |-> <<>>]
        ELSE IF found.status = "Found"
        THEN LET cell == decode_interior_cell_at_slot(page, found.value)
             IN  IF cell.status # "Ok" THEN [status |-> cell.status, value |-> <<>>]
                 ELSE [status |-> "Ok", value |-> <<cell.left_child>>]
        ELSE [status |-> "Ok",
              value |-> <<read_u64_at(page, INTERIOR_RIGHTMOST_CHILD_OFFSET)>>]

\* child_for_row_id: the slot found, or the insertion index when it is below the
\* slot count, gives the cell whose left child is returned; otherwise the header's
\* rightmost child.  value is <<child>>.
TableInteriorPageRef_child_for_row_id(page, row_id) ==
    LET slot_count == cell_count(page)
        found == find_interior_row_id(page, row_id)
    IN  IF found.status \notin {"Found", "NotFound"}
        THEN [status |-> found.status, value |-> <<>>]
        ELSE IF found.status = "Found" \/ found.value < slot_count
        THEN LET cell == decode_interior_cell_at_slot(page, found.value)
             IN  IF cell.status # "Ok" THEN [status |-> cell.status, value |-> <<>>]
                 ELSE [status |-> "Ok", value |-> <<cell.left_child>>]
        ELSE [status |-> "Ok",
              value |-> <<read_u64_at(page, INTERIOR_RIGHTMOST_CHILD_OFFSET)>>]

TableInteriorPageMut_init_empty(page, rightmost_child) ==
    LET emptied == init_empty(page, INTERIOR_SPEC)
    IN  IF emptied.status # "Ok" THEN emptied
        ELSE [status |-> "Ok",
              page |-> write_u64_at(emptied.page, INTERIOR_RIGHTMOST_CHILD_OFFSET,
                                    rightmost_child)]

insert_interior_cell(page, cell) ==
    LET on_second(second) ==
            IF second.status = "SpaceError"
            THEN [status |-> "PageFull", page |-> second.page, value |-> 0]
            ELSE [status |-> second.status, page |-> second.page, value |-> second.value]
        on_compacted(compacted) ==
            IF compacted.status # "Ok"
            THEN [status |-> compacted.status, page |-> compacted.page, value |-> 0]
            ELSE on_second(try_append_cell_for_insert(compacted.page, INTERIOR_SPEC, cell))
        on_first(first) ==
            IF first.status = "Ok"
            THEN [status |-> "Ok", page |-> first.page, value |-> first.value]
            ELSE IF first.status # "SpaceError"
            THEN [status |-> first.status, page |-> first.page, value |-> 0]
            ELSE on_compacted(defragment_interior_page(page))
    IN  on_first(try_append_cell_for_insert(page, INTERIOR_SPEC, cell))

TableInteriorPageMut_insert(page, row_id, left_child) ==
    LET on_written(cell_offset, insertion_index) ==
            IF cell_offset.status # "Ok"
            THEN [status |-> cell_offset.status, page |-> cell_offset.page]
            ELSE insert_slot(cell_offset.page, INTERIOR_SPEC, insertion_index,
                             cell_offset.value)
        on_found(found) ==
            IF found.status = "Found" THEN [status |-> "DuplicateRowId", page |-> page]
            ELSE IF found.status # "NotFound" THEN [status |-> found.status, page |-> page]
            ELSE on_written(insert_interior_cell(page,
                                                 encode_interior_cell(left_child, row_id)),
                            found.value)
    IN  on_found(find_interior_row_id(page, row_id))

TableInteriorPageMut_update(page, row_id, left_child) ==
    LET on_cell(existing_cell, cell_offset) ==
            LET existing_len == interior_cell_len(existing_cell.value)
            IN  IF existing_cell.status # "Ok"
                THEN [status |-> existing_cell.status, page |-> page]
                ELSE IF existing_len.status # "Ok"
                THEN [status |-> "CorruptCell", page |-> page]
                ELSE IF cell_offset.status # "Ok"
                THEN [status |-> cell_offset.status, page |-> page]
                ELSE [status |-> "Ok",
                      page |-> CopyInto(page, cell_offset.value,
                                        encode_interior_cell(left_child, row_id))]
        on_found(found) ==
            IF found.status = "NotFound" THEN [status |-> "RowIdNotFound", page |-> page]
            ELSE IF found.status # "Found" THEN [status |-> found.status, page |-> page]
            ELSE on_cell(cell_bytes_at_slot(page, INTERIOR_SPEC, found.value),
                         slot_offset(page, INTERIOR_SPEC, found.value))
    IN  on_found(find_interior_row_id(page, row_id))

TableInteriorPageMut_delete(page, row_id) ==
    LET on_found(found) ==
            IF found.status = "NotFound" THEN [status |-> "RowIdNotFound", page |-> page]
            ELSE IF found.status # "Found" THEN [status |-> found.status, page |-> page]
            ELSE remove_slot(page, INTERIOR_SPEC, found.value)
    IN  on_found(find_interior_row_id(page, row_id))

\* mutant: the interior compaction validates the page and moves no cell
TableInteriorPageMut_defragment_validates_only(page) ==
    [status |-> validate(page, INTERIOR_SPEC), page |-> page]

TableInteriorPageMut_defragment(page) == defragment_interior_page(page)

(***************************************************************************)
(* State.                                                                  *)
(***************************************************************************)
VARIABLES
    file,        \* DiskManager.file: the bytes of the database file
    page_count,  \* DiskManager.page_count
    read_buf,    \* the caller's buffer handed to DiskManager::read_page
    write_buf,   \* the caller's buffer handed to DiskManager::write_page
    frames,      \* PageCache.frames: frame id -> Frame
    page_table,  \* PageCache.page_table: page id -> frame id
    clock_hand,  \* PageCache.clock_hand
    guard,       \* the PinGuard that borrows the cache now: <<>> or <<frame id>>
    leaked,      \* frame id -> number of PinGuards forgotten without Drop
    written,     \* page id -> data region the caller last wrote to the page (through a
                 \* PinGuard or with DiskManager::write_page), or <<>>
    fetched,     \* Some(the pages fetched so far, in order) while every call on the cache
                 \* was a successful fetch_page of a page not fetched before, its guard
                 \* released; None after any other call
    result,      \* operation, status and values returned by the last call
    tpage,       \* the page buffer a table-page wrapper borrows
    rows,        \* row id -> value of its last successful insert or update, or <<>>
    tresult,     \* operation, status and value returned by the last table-page call
    tbefore,     \* the page buffer as it was when the last table-page call began
    targs,       \* the arguments of the last table-page call
    cbuf,        \* the byte buffer the varint cursors run over
    cursor,      \* the Cursor over cbuf: its kind ("write" or "read") and position
    encoded,     \* values encoded into cbuf since the buffer was made, in order
    cresult,     \* operation, status and values returned by the last varint call
    lexer,       \* Parser.lexer: the Lexer's source, rest, position and peeked
    pstate,      \* whether a parser exists and can still be called
    presult      \* operation, status and values returned by the last parser call

diskVars == <<file, page_count, read_buf, write_buf>>
cacheVars == <<frames, page_table, clock_hand, guard, leaked, written, fetched>>
storageVars == <<file, page_count, read_buf, write_buf, frames, page_table, clock_hand, guard,
                 leaked, written, fetched, result>>
pageVars == <<tpage, rows, tresult, tbefore, targs>>
codecVars == <<cbuf, cursor, encoded, cresult>>
sqlVars == <<lexer, pstate, presult>>
vars == <<file, page_count, read_buf, write_buf, frames, page_table, clock_hand, guard, leaked,
          written, fetched, result, tpage, rows, tresult, tbefore,
          targs, cbuf, cursor, encoded, cresult, lexer, pstate, presult>>

FrameIds == 0..(FrameCount - 1)
\* page ids handed to the disk manager; MaxPages is never a page of the file
PageIds == 0..MaxPages
\* page ids handed to the page cache: the data pages and the id past the end
DataPageIds == FIRST_DATA_PAGE_ID..MaxPages

\* Option<T>: None is <<>>, Some(x) is <<x>>
None == <<>>
Some(x) == <<x>>

Frame_empty ==
    [page_id |-> None, data |-> ZeroPage, reference |-> FALSE, dirty |-> FALSE,
     pin_count |-> 0]

Result(op, status, page_id) ==
    [op |-> op, status |-> status, page_id |-> page_id]

(***************************************************************************)
(* page_cache.rs.  A cache value c is the record                           *)
(*   [file, page_count, frames, page_table, clock_hand];                   *)
(* every method returns the cache it leaves behind and what it returned.  *)
(***************************************************************************)
Cache ==
    [file |-> file, page_count |-> page_count, frames |-> frames,
     page_table |-> page_table, clock_hand |-> clock_hand]

PageCache_new(dm) ==
    [file |-> dm.file, page_count |-> dm.page_count,
     frames |-> [f \in FrameIds |-> Frame_empty],
     page_table |-> <<>>, clock_hand |-> 0]

\* HashMap::remove and HashMap::insert on the page table
table_remove(pt, p) == [q \in (DOMAIN pt) \ {p} |-> pt[q]]
table_insert(pt, p, f) == [q \in (DOMAIN pt) \cup {p} |-> IF q = p THEN f ELSE pt[q]]

advance_clock_hand(hand) == (hand + 1) % FrameCount

\* mutant: the sweep passes over a referenced frame without clearing its bit
RECURSIVE victim_scan_keeps_bits(_, _, _)
victim_scan_keeps_bits(fr, hand, scans) ==
    IF scans = 0
    THEN [frames |-> fr, clock_hand |-> hand, victim |-> None]
    ELSE LET frame_id == hand
             next == advance_clock_hand(hand)
         IN  IF fr[frame_id].pin_count > 0 \/ fr[frame_id].reference
             THEN victim_scan_keeps_bits(fr, next, scans - 1)
             ELSE [frames |-> fr, clock_hand |-> next, victim |-> Some(frame_id)]

\* the loop of select_victim_frame with `scans` iterations left
RECURSIVE victim_scan(_, _, _)
victim_scan(fr, hand, scans) ==
    IF scans = 0
    THEN [frames |-> fr, clock_hand |-> hand, victim |-> None]
    ELSE LET frame_id == hand
             next == advance_clock_hand(hand)
         IN  IF fr[frame_id].pin_count > 0
             THEN victim_scan(fr, next, scans - 1)
             ELSE IF fr[frame_id].reference
             THEN victim_scan([fr EXCEPT ![frame_id].reference = FALSE], next, scans - 1)
             ELSE [frames |-> fr, clock_hand |-> next, victim |-> Some(frame_id)]

\* mutant: the sweep does not skip pinned frames
RECURSIVE victim_scan_ignoring_pins(_, _, _)
victim_scan_ignoring_pins(fr, hand, scans) ==
    IF scans = 0
    THEN [frames |-> fr, clock_hand |-> hand, victim |-> None]
    ELSE LET frame_id == hand
             next == advance_clock_hand(hand)
         IN  IF fr[frame_id].reference
             THEN victim_scan_ignoring_pins([fr EXCEPT ![frame_id].reference = FALSE],
                                            next, scans - 1)
             ELSE [frames |-> fr, clock_hand |-> next, victim |-> Some(frame_id)]

select_victim_frame_ignoring_pins(fr, hand) ==
    victim_scan_ignoring_pins(fr, hand, 2 * FrameCount)

\* mutant: no second chance, the sweep takes the first unpinned frame it meets
RECURSIVE victim_scan_first_unpinned(_, _, _)
victim_scan_first_unpinned(fr, hand, scans) ==
    IF scans = 0
    THEN [frames |-> fr, clock_hand |-> hand, victim |-> None]
    ELSE LET frame_id == hand
             next == advance_clock_hand(hand)
         IN  IF fr[frame_id].pin_count > 0
             THEN victim_scan_first_unpinned(fr, next, scans - 1)
             ELSE [frames |-> fr, clock_hand |-> next, victim |-> Some(frame_id)]

select_victim_frame_first_unpinned(fr, hand) ==
    victim_scan_first_unpinned(fr, hand, 2 * FrameCount)

\* mutant: the sweep gives up after one lap
select_victim_frame_one_lap(fr, hand) == victim_scan(fr, hand, FrameCount)

select_victim_frame(fr, hand) == victim_scan(fr, hand, 2 * FrameCount)

flush_frame_if_dirty(c, frame_id) ==
    LET frame == c.frames[frame_id]
    IN  IF ~frame.dirty THEN [status |-> "Ok", c |-> c]
        ELSE IF frame.page_id = None THEN [status |-> "Ok", c |-> c]
        ELSE LET w == DiskManager_write_page(c.file, c.page_count, frame.page_id[1],
                                             frame.data)
             IN  IF w.status # "Ok" THEN [status |-> w.status, c |-> c]
                 ELSE [status |-> "Ok",
                       c |-> [c EXCEPT !.file = w.file,
                                       !.frames[frame_id].dirty = FALSE]]

\* mutant: the old page-table entry of the replaced frame is left behind
replace_frame_keeps_old_entry(c, frame_id, new_page_id) ==
    LET fl == flush_frame_if_dirty(c, frame_id)
    IN  IF fl.status # "Ok" THEN [status |-> fl.status, c |-> fl.c]
        ELSE
        LET c2 == fl.c
            rd == DiskManager_read_page(c2.file, c2.page_count, new_page_id, ZeroPage)
        IN  IF rd.status # "Ok" THEN [status |-> rd.status, c |-> c2]
            ELSE [status |-> "Ok",
                  c |-> [c2 EXCEPT
                           !.frames[frame_id] =
                               [page_id |-> Some(new_page_id), data |-> rd.buf,
                                reference |-> TRUE, dirty |-> FALSE, pin_count |-> 1],
                           !.page_table = table_insert(c2.page_table, new_page_id, frame_id)]]

replace_frame(c, frame_id, new_page_id) ==
    LET fl == flush_frame_if_dirty(c, frame_id)
    IN  IF fl.status # "Ok" THEN [status |-> fl.status, c |-> fl.c]
        ELSE
        LET c1 == fl.c
            old == c1.frames[frame_id].page_id
            c2 == IF old # None
                  THEN [c1 EXCEPT !.page_table = table_remove(c1.page_table, old[1])]
                  ELSE c1
            rd == DiskManager_read_page(c2.file, c2.page_count, new_page_id, ZeroPage)
        IN  IF rd.status # "Ok" THEN [status |-> rd.status, c |-> c2]
            ELSE [status |-> "Ok",
                  c |-> [c2 EXCEPT
                           !.frames[frame_id] =
                               [page_id |-> Some(new_page_id), data |-> rd.buf,
                                reference |-> TRUE, dirty |-> FALSE, pin_count |-> 1],
                           !.page_table = table_insert(c2.page_table, new_page_id, frame_id)]]

\* mutant: a hit marks the frame pinned instead of counting the pin
fetch_page_pins_once(c, page_id) ==
    IF page_id \in DOMAIN c.page_table
    THEN LET frame_id == c.page_table[page_id]
         IN  [status |-> "Ok", frame |-> Some(frame_id),
              c |-> [c EXCEPT !.frames[frame_id].reference = TRUE,
                              !.frames[frame_id].pin_count = 1]]
    ELSE LET sv == select_victim_frame(c.frames, c.clock_hand)
             c1 == [c EXCEPT !.frames = sv.frames, !.clock_hand = sv.clock_hand]
         IN  IF sv.victim = None
             THEN [status |-> "NoEvictableFrame", frame |-> None, c |-> c1]
             ELSE LET rp == replace_frame(c1, sv.victim[1], page_id)
                  IN  IF rp.status # "Ok"
                      THEN [status |-> rp.status, frame |-> None, c |-> rp.c]
                      ELSE [status |-> "Ok", frame |-> sv.victim, c |-> rp.c]

\* mutant: a hit pins the frame and leaves its reference bit as it was
fetch_page_hit_keeps_reference(c, page_id) ==
    IF page_id \in DOMAIN c.page_table
    THEN LET frame_id == c.page_table[page_id]
         IN  [status |-> "Ok", frame |-> Some(frame_id),
              c |-> [c EXCEPT !.frames[frame_id].pin_count = @ + 1]]
    ELSE LET sv == select_victim_frame(c.frames, c.clock_hand)
             c1 == [c EXCEPT !.frames = sv.frames, !.clock_hand = sv.clock_hand]
         IN  IF sv.victim = None
             THEN [status |-> "NoEvictableFrame", frame |-> None, c |-> c1]
             ELSE LET rp == replace_frame(c1, sv.victim[1], page_id)
                  IN  IF rp.status # "Ok"
                      THEN [status |-> rp.status, frame |-> None, c |-> rp.c]
                      ELSE [status |-> "Ok", frame |-> sv.victim, c |-> rp.c]

fetch_page(c, page_id) ==
    IF page_id \in DOMAIN c.page_table
    THEN LET frame_id == c.page_table[page_id]
         IN  [status |-> "Ok", frame |-> Some(frame_id),
              c |-> [c EXCEPT !.frames[frame_id].reference = TRUE,
                              !.frames[frame_id].pin_count = @ + 1]]
    ELSE LET sv == select_victim_frame(c.frames, c.clock_hand)
             c1 == [c EXCEPT !.frames = sv.frames, !.clock_hand = sv.clock_hand]
         IN  IF sv.victim = None
             THEN [status |-> "NoEvictableFrame", frame |-> None, c |-> c1]
             ELSE LET rp == replace_frame(c1, sv.victim[1], page_id)
                  IN  IF rp.status # "Ok"
                      THEN [status |-> rp.status, frame |-> None, c |-> rp.c]
                      ELSE [status |-> "Ok", frame |-> sv.victim, c |-> rp.c]

\* mutant: the page is allocated on disk before a victim is looked for
new_page_allocates_first(c) ==
    LET np == DiskManager_new_page(c.file, c.page_count)
        c0 == [c EXCEPT !.file = np.file, !.page_count = np.page_count]
        sv == select_victim_frame(c0.frames, c0.clock_hand)
        c1 == [c0 EXCEPT !.frames = sv.frames, !.clock_hand = sv.clock_hand]
    IN  IF sv.victim = None
        THEN [status |-> "NoEvictableFrame", frame |-> None, page_id |-> None, c |-> c1]
        ELSE LET rp == replace_frame(c1, sv.victim[1], np.page_id)
             IN  IF rp.status # "Ok"
                 THEN [status |-> rp.status, frame |-> None, page_id |-> None, c |-> rp.c]
                 ELSE [status |-> "Ok", frame |-> sv.victim, page_id |-> Some(np.page_id),
                       c |-> rp.c]

new_page(c) ==
    LET sv == select_victim_frame(c.frames, c.clock_hand)
        c1 == [c EXCEPT !.frames = sv.frames, !.clock_hand = sv.clock_hand]
    IN  IF sv.victim = None
        THEN [status |-> "NoEvictableFrame", frame |-> None, page_id |-> None, c |-> c1]
        ELSE LET np == DiskManager_new_page(c1.file, c1.page_count)
                 c2 == [c1 EXCEPT !.file = np.file, !.page_count = np.page_count]
                 rp == replace_frame(c2, sv.victim[1], np.page_id)
             IN  IF rp.status # "Ok"
                 THEN [status |-> rp.status, frame |-> None, page_id |-> None, c |-> rp.c]
                 ELSE [status |-> "Ok", frame |-> sv.victim, page_id |-> Some(np.page_id),
                       c |-> rp.c]

\* mutant: the pin count of the resident frame is not looked at
flush_page_ignoring_pins(c, page_id) ==
    IF page_id \notin DOMAIN c.page_table THEN [status |-> "Ok", c |-> c]
    ELSE flush_frame_if_dirty(c, c.page_table[page_id])

flush_page(c, page_id) ==
    IF page_id \notin DOMAIN c.page_table THEN [status |-> "Ok", c |-> c]
    ELSE LET frame_id == c.page_table[page_id]
         IN  IF c.frames[frame_id].pin_count > 0
             THEN [status |-> "PinnedPage", c |-> c]
             ELSE flush_frame_if_dirty(c, frame_id)

\* the loop of flush_all from frame_id on; page_id is the page of a PinnedPage error
RECURSIVE flush_all_from(_, _)
flush_all_from(c, frame_id) ==
    IF frame_id >= FrameCount THEN [status |-> "Ok", page_id |-> None, c |-> c]
    ELSE LET frame == c.frames[frame_id]
         IN  IF ~frame.dirty THEN flush_all_from(c, frame_id + 1)
             ELSE IF frame.page_id = None THEN flush_all_from(c, frame_id + 1)
             ELSE IF frame.pin_count > 0
             THEN [status |-> "PinnedPage", page_id |-> frame.page_id, c |-> c]
             ELSE LET fl == flush_frame_if_dirty(c, frame_id)
                  IN  IF fl.status # "Ok"
                      THEN [status |-> fl.status, page_id |-> None, c |-> fl.c]
                      ELSE flush_all_from(fl.c, frame_id + 1)

flush_all(c) == flush_all_from(c, 0)

\* DiskManager::write_page when the operating system fails one of its calls:
\* fault is None, Some("seek") (the error comes before any byte is written) or
\* Some("sync_all") (the error comes after write_all has written the page)
DiskManager_write_page_with_fault(f, count, page_id, buf, fault) ==
    IF page_id >= count THEN [status |-> "InvalidPageId", file |-> f]
    ELSE IF fault = Some("seek") THEN [status |-> "Io", file |-> f]
    ELSE IF fault = Some("sync_all")
    THEN [status |-> "Io", file |-> DiskManager_write_page(f, count, page_id, buf).file]
    ELSE DiskManager_write_page(f, count, page_id, buf)

\* mutant: the first write that fails ends the flush
RECURSIVE flush_best_effort_on_drop_stops_at_error(_, _, _)
flush_best_effort_on_drop_stops_at_error(c, frame_id, fault) ==
    IF frame_id >= FrameCount THEN c
    ELSE LET frame == c.frames[frame_id]
             here == IF fault # None /\ fault[1].frame = frame_id
                     THEN Some(fault[1].kind) ELSE None
         IN  IF ~frame.dirty \/ frame.pin_count > 0
             THEN flush_best_effort_on_drop_stops_at_error(c, frame_id + 1, fault)
             ELSE IF frame.page_id = None
             THEN flush_best_effort_on_drop_stops_at_error(c, frame_id + 1, fault)
             ELSE LET w == DiskManager_write_page_with_fault(c.file, c.page_count,
                                                             frame.page_id[1], frame.data, here)
                  IN  IF w.status = "Ok"
                      THEN flush_best_effort_on_drop_stops_at_error(
                               [c EXCEPT !.file = w.file, !.frames[frame_id].dirty = FALSE],
                               frame_id + 1, fault)
                      ELSE [c EXCEPT !.file = w.file]

\* the loop of flush_best_effort_on_drop from frame_id on; fault is None or
\* Some([frame, kind]): the frame whose write_page meets an I/O error, and where
RECURSIVE flush_best_effort_on_drop_from(_, _, _)
flush_best_effort_on_drop_from(c, frame_id, fault) ==
    IF frame_id >= FrameCount THEN c
    ELSE LET frame == c.frames[frame_id]
             here == IF fault # None /\ fault[1].frame = frame_id
                     THEN Some(fault[1].kind) ELSE None
         IN  IF ~frame.dirty \/ frame.pin_count > 0
             THEN flush_best_effort_on_drop_from(c, frame_id + 1, fault)
             ELSE IF frame.page_id = None
             THEN flush_best_effort_on_drop_from(c, frame_id + 1, fault)
             ELSE LET w == DiskManager_write_page_with_fault(c.file, c.page_count,
                                                             frame.page_id[1], frame.data, here)
                  IN  IF w.status = "Ok"
                      THEN flush_best_effort_on_drop_from(
                               [c EXCEPT !.file = w.file, !.frames[frame_id].dirty = FALSE],
                               frame_id + 1, fault)
                      ELSE flush_best_effort_on_drop_from([c EXCEPT !.file = w.file],
                                                          frame_id + 1, fault)

flush_best_effort_on_drop(c, fault) == flush_best_effort_on_drop_from(c, 0, fault)

\* mutant: page_mut hands out the bytes without marking the frame dirty
page_mut_store_without_dirty(fr, frame_id, offset, value) ==
    [fr EXCEPT ![frame_id].data = CopyInto(@, offset, <<value>>)]

\* PinGuard::page_mut followed by a store of `value` at `offset` of the view
page_mut_store(fr, frame_id, offset, value) ==
    [fr EXCEPT ![frame_id].dirty = TRUE,
               ![frame_id].data = CopyInto(@, offset, <<value>>)]

\* mutant: the release forgets to lower the pin count
PinGuard_drop_keeps_pin(fr, frame_id) == fr

\* Drop for PinGuard
PinGuard_drop(fr, frame_id) ==
    IF fr[frame_id].pin_count > 0
    THEN [fr EXCEPT ![frame_id].pin_count = @ - 1]
    ELSE fr

(***************************************************************************)
(* Inputs of the explored calls.                                           *)
(***************************************************************************)
\* stores made through PinGuard::page_mut: <<offset, value>>; the offset is the
\* first byte after the fields of a database header
Stores == {<<PAGE_COUNT_OFFSET + 8, 7>>}

\* buffers handed to DiskManager::write_page: a data byte with checksum bytes the
\* caller made up, and a buffer that differs from a header in its page count
Buffers ==
    {CopyInto(CopyInto(ZeroPage, 0, <<9>>), PAGE_DATA_END, <<238, 238, 238, 238>>),
     CopyInto(CopyInto(ZeroPage, 1, <<5>>), PAGE_COUNT_OFFSET, <<7>>)}

\* row ids of table-page calls; the last one does not fit in one byte
RowIds == {1, 2, 300}
\* leaf payloads: two of one length and a longer one; a leaf holds two such cells
Payloads == {<<1, 2, 3, 4, 5>>, <<6, 7, 8, 9, 10>>, <<11, 12, 13, 14, 15, 16>>}
\* leaf payloads of three lengths: a leaf holds two short cells and a longer one
\* beside the dead space a grown cell leaves
MixedPayloads == {<<20>>, <<1, 2, 3, 4, 5>>, <<11, 12, 13, 14, 15, 16>>}
\* the row ids of the cells such a leaf holds
MixedRowIds == {1, 300}
\* the payloads of three lengths and a second payload of the longest length
\* leaf payloads of two lengths, short enough for a leaf of three cells
ShortPayloads == {<<20>>, <<1, 2, 3, 4, 5>>}
SameSizePayloads == MixedPayloads \cup {<<21, 22, 23, 24, 25, 26>>}
\* child page ids stored in interior cells, and the rightmost child given to init
Children == {7, 258}
RightmostChild == 9
\* row ids routed through an interior page: a stored separator, one between two
\* separators and one above them all
RouteTargets == {2, 3, 301}

\* TablePageMut::from_bytes: the kind of wrapper the buffer deserialises to
TablePageMut_from_bytes(page) ==
    IF page_type(page) = LEAF_PAGE_TYPE
    THEN (IF validate(page, LEAF_SPEC) = "Ok" THEN "Leaf" ELSE validate(page, LEAF_SPEC))
    ELSE IF page_type(page) = INTERIOR_PAGE_TYPE
    THEN (IF validate(page, INTERIOR_SPEC) = "Ok" THEN "Interior"
          ELSE validate(page, INTERIOR_SPEC))
    ELSE "InvalidPageType"

TResult(op, status, value) == [op |-> op, status |-> status, value |-> value]

(***************************************************************************)
(* varint.rs.  A u64 or an i64 is modelled as its 64 bits, least           *)
(* significant first, so that shifts drop bits at the width as the machine *)
(* does; a byte is a number in 0..255.                                     *)
(***************************************************************************)
U64_BITS == 64
MAX_VARINT_BYTES == 10

RECURSIVE repeat_bit(_, _)
repeat_bit(bit, n) == IF n = 0 THEN <<>> ELSE <<bit>> \o repeat_bit(bit, n - 1)

RECURSIVE bits_of(_, _)
bits_of(n, w) == IF w = 0 THEN <<>> ELSE <<n % 2>> \o bits_of(n \div 2, w - 1)

RECURSIVE int_of(_)
int_of(bits) == IF bits = <<>> THEN 0 ELSE Head(bits) + 2 * int_of(Tail(bits))

\* a small literal as a u64, and `value as u8`
u64_from(n) == bits_of(n, U64_BITS)
as_u8(value) == int_of(SubSeq(value, 1, 8))
u64_zero == repeat_bit(0, U64_BITS)

\* value << k, value >> k on a u64 (zeroes come in) and on an i64 (the sign comes in)
shl(value, k) == SubSeq(repeat_bit(0, k) \o value, 1, U64_BITS)
shr_u64(value, k) == SubSeq(value, k + 1, U64_BITS) \o repeat_bit(0, k)
shr_i64(value, k) == SubSeq(value, k + 1, U64_BITS) \o repeat_bit(value[U64_BITS], k)

RECURSIVE bit_xor(_, _)
bit_xor(a, b) ==
    IF a = <<>> THEN <<>> ELSE <<(Head(a) + Head(b)) % 2>> \o bit_xor(Tail(a), Tail(b))

RECURSIVE bit_or(_, _)
bit_or(a, b) ==
    IF a = <<>> THEN <<>>
    ELSE <<IF Head(a) + Head(b) > 0 THEN 1 ELSE 0>> \o bit_or(Tail(a), Tail(b))

RECURSIVE bit_and(_, _)
bit_and(a, b) ==
    IF a = <<>> THEN <<>> ELSE <<Head(a) * Head(b)>> \o bit_and(Tail(a), Tail(b))

RECURSIVE bit_not(_)
bit_not(a) == IF a = <<>> THEN <<>> ELSE <<1 - Head(a)>> \o bit_not(Tail(a))

RECURSIVE add_carry(_, _)
add_carry(a, carry) ==
    IF a = <<>> THEN <<>>
    ELSE <<(Head(a) + carry) % 2>> \o add_carry(Tail(a), (Head(a) + carry) \div 2)

\* -value on an i64 in two's complement
neg_i64(value) == add_carry(bit_not(value), 1)

\* a <= b on u64, compared from the most significant bit down
RECURSIVE u64_le_from(_, _, _)
u64_le_from(a, b, i) ==
    IF i = 0 THEN TRUE
    ELSE IF a[i] # b[i] THEN a[i] < b[i]
    ELSE u64_le_from(a, b, i - 1)

u64_le(a, b) == u64_le_from(a, b, U64_BITS)

zigzag_encode_i64(value) == bit_xor(shl(value, 1), shr_i64(value, 63))

zigzag_decode_i64(value) ==
    bit_xor(shr_u64(value, 1), neg_i64(bit_and(value, u64_from(1))))

\* Cursor<&mut [u8]>::write_all of one byte: it fits or nothing is written
Cursor_write_all(buf, pos, byte) ==
    IF pos < Len(buf)
    THEN [status |-> "Ok", buf |-> CopyInto(buf, pos, <<byte>>), pos |-> pos + 1]
    ELSE [status |-> "IoError", buf |-> buf, pos |-> pos]

\* the while loop of varint_encode
RECURSIVE varint_encode_loop(_, _, _, _)
varint_encode_loop(value, n, buf, pos) ==
    IF value = u64_zero THEN [status |-> "Ok", n |-> n, buf |-> buf, pos |-> pos]
    ELSE LET on_write(w, rest) ==
                 IF w.status # "Ok"
                 THEN [status |-> w.status, n |-> n, buf |-> w.buf, pos |-> w.pos]
                 ELSE varint_encode_loop(rest, n + 1, w.buf, w.pos)
             on_shift(low, rest) ==
                 on_write(Cursor_write_all(buf, pos,
                                           IF rest # u64_zero THEN low + 128 ELSE low),
                          rest)
         IN  on_shift(as_u8(bit_and(value, u64_from(127))), shr_u64(value, 7))

varint_encode(value, buf, pos) ==
    IF u64_le(value, u64_from(127))
    THEN LET on_write(w) ==
                 [status |-> w.status, n |-> IF w.status = "Ok" THEN 1 ELSE 0,
                  buf |-> w.buf, pos |-> w.pos]
         IN  on_write(Cursor_write_all(buf, pos, as_u8(bit_and(value, u64_from(127)))))
    ELSE varint_encode_loop(value, 0, buf, pos)

\* the for loop of varint_decode; read_exact at the end of the buffer fails
RECURSIVE varint_decode_loop(_, _, _, _, _, _)
varint_decode_loop(so_far, shift, i, rounds, buf, pos) ==
    IF i = rounds THEN [status |-> "InvalidVarInt", value |-> u64_zero, pos |-> pos]
    ELSE IF pos >= Len(buf)
    THEN [status |-> "IoError", value |-> u64_zero, pos |-> Len(buf)]
    ELSE LET on_result(byte, merged) ==
                 IF byte < 128
                 THEN [status |-> "Ok", value |-> merged, pos |-> pos + 1]
                 ELSE varint_decode_loop(merged, shift + 7, i + 1, rounds, buf, pos + 1)
             on_byte(byte) ==
                 on_result(byte, bit_or(so_far, shl(u64_from(byte % 128), shift)))
         IN  on_byte(buf[pos + 1])

\* mutant: nine rounds, as for a 63-bit code
varint_decode_nine_rounds(buf, pos) ==
    varint_decode_loop(u64_zero, 0, 0, MAX_VARINT_BYTES - 1, buf, pos)

varint_decode(buf, pos) == varint_decode_loop(u64_zero, 0, 0, MAX_VARINT_BYTES, buf, pos)

RECURSIVE varint_size_loop(_, _)
varint_size_loop(value, size) ==
    IF value = u64_zero THEN size ELSE varint_size_loop(shr_u64(value, 7), size + 1)

varint_size(value) ==
    IF u64_le(value, u64_from(127)) THEN 1 ELSE varint_size_loop(value, 0)

varint_encode_signed(value, buf, pos) == varint_encode(zigzag_encode_i64(value), buf, pos)

varint_decode_signed(buf, pos) ==
    LET on_value(r) ==
            IF r.status # "Ok" THEN r
            ELSE [status |-> "Ok", value |-> zigzag_decode_i64(r.value), pos |-> r.pos]
    IN  on_value(varint_decode(buf, pos))

varint_size_signed(value) == varint_size(zigzag_encode_i64(value))

\* bytes of the varint buffer, and the number of values one buffer takes
VarintBufLen == 12
MaxVarints == 2

\* the low n bits set, a single bit set
Ones(n) == repeat_bit(1, n) \o repeat_bit(0, U64_BITS - n)
Pow2(n) == repeat_bit(0, n) \o <<1>> \o repeat_bit(0, U64_BITS - n - 1)

\* values at the edges of the code lengths: 0, 127, 16383, u32::MAX, i64::MAX and
\* u64::MAX (-1); 1, 128, 16384, 2^56 and i64::MIN; -64, -128 and -16384
VarintValues ==
    {Ones(n) : n \in {0, 7, 14, 32, 63, 64}}
        \cup {Pow2(n) : n \in {0, 7, 14, 56, 63}}
        \cup {bit_not(Ones(n)) : n \in {6, 7, 14}}

CResult(op, status, value, n, index) ==
    [op |-> op, status |-> status, value |-> value, n |-> n, index |-> index]

\* let mut buf = [0u8; N]; Cursor::new(&mut buf[..])
InitCodec ==
    /\ cbuf = Zeros(VarintBufLen)
    /\ cursor = [kind |-> "write", pos |-> 0]
    /\ encoded = <<>>
    /\ cresult = CResult("new", "Ok", u64_zero, 0, 0)

(***************************************************************************)
(* SQL front end, lexer/mod.rs and lexer/token_kind.rs.  A source text is  *)
(* a sequence of characters, each written as a string; the characters      *)
(* outside ASCII are written by code point.  Positions count UTF-8 bytes.  *)
(***************************************************************************)
AsciiLower ==
    <<"a", "b", "c", "d", "e", "f", "g", "h", "i", "j", "k", "l", "m",
      "n", "o", "p", "q", "r", "s", "t", "u", "v", "w", "x", "y", "z">>
AsciiUpper ==
    <<"A", "B", "C", "D", "E", "F", "G", "H", "I", "J", "K", "L", "M",
      "N", "O", "P", "Q", "R", "S", "T", "U", "V", "W", "X", "Y", "Z">>
AsciiDigits == <<"0", "1", "2", "3", "4", "5", "6", "7", "8", "9">>

\* U+00E9 and U+00C9 are the letter e with acute accent (two bytes each),
\* U+20AC is the euro sign (three bytes, not a letter)
char_is_alphabetic(c) ==
    \/ \E i \in 1..26 : AsciiLower[i] = c \/ AsciiUpper[i] = c
    \/ c \in {"U+00E9", "U+00C9"}

char_is_digit(c) == \E i \in 1..10 : AsciiDigits[i] = c

char_is_whitespace(c) == c \in {" ", "\n", "\t"}

len_utf8(c) ==
    IF c \in {"U+00E9", "U+00C9"} THEN 2 ELSE IF c = "U+20AC" THEN 3 ELSE 1

char_to_uppercase(c) ==
    IF \E i \in 1..26 : AsciiLower[i] = c
    THEN AsciiUpper[CHOOSE i \in 1..26 : AsciiLower[i] = c]
    ELSE IF c = "U+00E9" THEN "U+00C9" ELSE c

\* let x = value; then the rest of the body, F, with x
With(value, F(_)) == CHOOSE out \in {F(x) : x \in {value}} : TRUE

\* str::len: the length of a text in bytes
RECURSIVE str_len(_)
str_len(s) == IF s = <<>> THEN 0 ELSE len_utf8(Head(s)) + str_len(Tail(s))

RECURSIVE to_uppercase(_)
to_uppercase(s) ==
    IF s = <<>> THEN <<>> ELSE <<char_to_uppercase(Head(s))>> \o to_uppercase(Tail(s))

RECURSIVE trim_start(_)
trim_start(s) ==
    IF s # <<>> /\ char_is_whitespace(Head(s)) THEN trim_start(Tail(s)) ELSE s

starts_with(s, pat) == Len(s) >= Len(pat) /\ SubSeq(s, 1, Len(pat)) = pat

\* the index of the first occurrence of pat in s at or after i, or 0
RECURSIVE str_find(_, _, _)
str_find(s, pat, i) ==
    IF i + Len(pat) - 1 > Len(s) THEN 0
    ELSE IF SubSeq(s, i, i + Len(pat) - 1) = pat THEN i
    ELSE str_find(s, pat, i + 1)

\* str::split_once: the texts before and after the first occurrence of pat
split_once(s, pat) ==
    LET on_index(i) ==
            IF i = 0 THEN None
            ELSE Some(<<SubSeq(s, 1, i - 1), SubSeq(s, i + Len(pat), Len(s))>>)
    IN  With(str_find(s, pat, 1), on_index)

\* TokenKind: the variant and its payload, a sequence of strings
TokenKind(kind, value) == [kind |-> kind, value |-> value]
Keyword(keyword) == TokenKind("Keyword", <<keyword>>)
Symbol(kind) == TokenKind(kind, <<>>)

\* the keyword spellings of impl From<&str> for TokenKind
KeywordTable ==
    {[text |-> <<"S", "E", "L", "E", "C", "T">>, keyword |-> "Select"],
     [text |-> <<"F", "R", "O", "M">>, keyword |-> "From"],
     [text |-> <<"W", "H", "E", "R", "E">>, keyword |-> "Where"],
     [text |-> <<"O", "R", "D", "E", "R">>, keyword |-> "Order"],
     [text |-> <<"B", "Y">>, keyword |-> "By"],
     [text |-> <<"A", "S", "C">>, keyword |-> "Asc"],
     [text |-> <<"D", "E", "S", "C">>, keyword |-> "Desc"],
     [text |-> <<"A", "N", "D">>, keyword |-> "And"],
     [text |-> <<"O", "R">>, keyword |-> "Or"],
     [text |-> <<"T", "R", "U", "E">>, keyword |-> "True"],
     [text |-> <<"F", "A", "L", "S", "E">>, keyword |-> "False"],
     [text |-> <<"N", "O", "T">>, keyword |-> "Not"],
     [text |-> <<"L", "I", "M", "I", "T">>, keyword |-> "Limit"],
     [text |-> <<"O", "F", "F", "S", "E", "T">>, keyword |-> "Offset"],
     [text |-> <<"I", "N", "S", "E", "R", "T">>, keyword |-> "Insert"],
     [text |-> <<"I", "N", "T", "O">>, keyword |-> "Into"],
     [text |-> <<"V", "A", "L", "U", "E", "S">>, keyword |-> "Values"],
     [text |-> <<"C", "R", "E", "A", "T", "E">>, keyword |-> "Create"],
     [text |-> <<"T", "A", "B", "L", "E">>, keyword |-> "Table"],
     [text |-> <<"I", "N", "T">>, keyword |-> "Int"],
     [text |-> <<"F", "L", "O", "A", "T">>, keyword |-> "Float"],
     [text |-> <<"T", "E", "X", "T">>, keyword |-> "Text"]}

\* impl From<&str> for TokenKind
TokenKind_from(value) ==
    LET on_uppercase(uppercase) ==
            IF \E k \in KeywordTable : k.text = uppercase
            THEN Keyword((CHOOSE k \in KeywordTable : k.text = uppercase).keyword)
            ELSE TokenKind("Identifier", value)
    IN  With(to_uppercase(value), on_uppercase)

\* Ok(Token { kind, offset }) and Err(SQLError { kind, pos }) as the lexer yields them
Token(kind, offset) == [status |-> "Ok", kind |-> kind, pos |-> offset]
SQLError(kind, detail, pos) == [status |-> kind, kind |-> TokenKind(kind, detail), pos |-> pos]

Lexer_new(source) == [source |-> source, rest |-> source, position |-> 0, peeked |-> None]

skip_whitespace(lx) ==
    LET on_trimmed(trimmed) ==
            [lx EXCEPT !.position = @ + (str_len(lx.rest) - str_len(trimmed)),
                       !.rest = trimmed]
    IN  With(trim_start(lx.rest), on_trimmed)

skip_to_next(lx, end) ==
    LET on_split(split) ==
            IF split # None
            THEN [lx EXCEPT !.position = @ + str_len(split[1][1]) + str_len(end),
                            !.rest = split[1][2]]
            ELSE [lx EXCEPT !.position = @ + str_len(lx.rest), !.rest = <<>>]
    IN  With(split_once(lx.rest, end), on_split)

RECURSIVE skip_whitespace_and_comments(_)
skip_whitespace_and_comments(lx) ==
    LET on_skipped(s) ==
            IF starts_with(s.rest, <<"-", "-">>)
            THEN With(skip_to_next(s, <<"\n">>), skip_whitespace_and_comments)
            ELSE IF starts_with(s.rest, <<"/", "*">>)
            THEN With(skip_to_next(s, <<"*", "/">>), skip_whitespace_and_comments)
            ELSE s
    IN  With(skip_whitespace(lx), on_skipped)

\* c_rest.split(|c| !matches!(c, '.' | '0'..='9')).next()
RECURSIVE number_literal(_)
number_literal(s) ==
    IF s # <<>> /\ (Head(s) = "." \/ char_is_digit(Head(s)))
    THEN <<Head(s)>> \o number_literal(Tail(s))
    ELSE <<>>

\* c_rest.split(is_not_part_of_keyword).next()
RECURSIVE keyword_literal(_)
keyword_literal(s) ==
    IF s # <<>> /\ (char_is_alphabetic(Head(s)) \/ Head(s) = "_")
    THEN <<Head(s)>> \o keyword_literal(Tail(s))
    ELSE <<>>

RECURSIVE strip_leading_zeros(_)
strip_leading_zeros(s) ==
    IF Len(s) > 1 /\ Head(s) = "0" THEN strip_leading_zeros(Tail(s)) ELSE s

digit_value(c) == (CHOOSE i \in 1..10 : AsciiDigits[i] = c) - 1

\* whether the number written a is at most the number written b, both of one length
RECURSIVE digits_le(_, _)
digits_le(a, b) ==
    IF a = <<>> THEN TRUE
    ELSE IF digit_value(Head(a)) # digit_value(Head(b))
    THEN digit_value(Head(a)) < digit_value(Head(b))
    ELSE digits_le(Tail(a), Tail(b))

I32_MAX_DIGITS == <<"2", "1", "4", "7", "4", "8", "3", "6", "4", "7">>

\* literal.parse::<i32>(): the decimal digits of the value, or None
parse_i32(literal) ==
    IF \E i \in 1..Len(literal) : literal[i] = "." THEN None
    ELSE LET on_digits(digits) ==
                 IF \/ Len(digits) < Len(I32_MAX_DIGITS)
                    \/ Len(digits) = Len(I32_MAX_DIGITS) /\ digits_le(digits, I32_MAX_DIGITS)
                 THEN Some(digits)
                 ELSE None
         IN  With(strip_leading_zeros(literal), on_digits)

\* literal.parse::<f32>() of digits and dots that begin with a digit: at most one
\* dot; the value is kept as written, with a dot added to digits alone
parse_f32(literal) ==
    LET dots == {i \in 1..Len(literal) : literal[i] = "."}
    IN  IF dots = {} THEN Some(literal \o <<".">>)
        ELSE IF \E i, j \in dots : i # j THEN None
        ELSE Some(literal)

\* a call of a method of the lexer or the parser, by the name of the method
RECURSIVE Invoke(_, _)

\* self.lexer.next(); with the item dropped
Lexer_advance(lx) == Invoke("Lexer_next", <<lx>>).lx

LexItem(item, lx) == [item |-> item, lx |-> lx]

\* Started::Number
lex_number(lx, c, c_at, c_rest) ==
    LET consumed(literal) ==
            [lx EXCEPT !.position = @ + (str_len(literal) - len_utf8(c)),
                       !.rest = SubSeq(lx.rest, Len(literal), Len(lx.rest))]
        on_literal(literal) ==
            IF parse_i32(literal) # None
            THEN LexItem(Some(Token(TokenKind("Number", <<"Integer">> \o parse_i32(literal)[1]),
                                    c_at)),
                         consumed(literal))
            ELSE IF parse_f32(literal) # None
            THEN LexItem(Some(Token(TokenKind("Number", <<"Float">> \o parse_f32(literal)[1]),
                                    c_at)),
                         consumed(literal))
            ELSE LexItem(Some(SQLError("InvalidNumber", <<>>, c_at)), lx)
    IN  With(number_literal(c_rest), on_literal)

\* Started::SingleQuotedString | Started::DoubleQuotedString
lex_string(lx, c_at, terminator) ==
    LET on_split(split) ==
            IF split = None
            THEN LexItem(Some(SQLError("UnterminatedString", <<>>, c_at)), lx)
            ELSE LexItem(Some(Token(TokenKind("String", split[1][1]), c_at)),
                         [lx EXCEPT !.position = @ + str_len(split[1][1]) + 1,
                                    !.rest = split[1][2]])
    IN  With(split_once(lx.rest, <<terminator>>), on_split)

\* Started::Keyword
lex_keyword(lx, c, c_at, c_rest) ==
    LET on_literal(literal) ==
            LexItem(Some(Token(TokenKind_from(literal), c_at)),
                    [lx EXCEPT !.position = @ + (str_len(literal) - len_utf8(c)),
                               !.rest = SubSeq(lx.rest, Len(literal), Len(lx.rest))])
    IN  With(keyword_literal(c_rest), on_literal)

\* Started::MaybeEqualsOp
lex_maybe_equals(lx, c, c_at) ==
    IF starts_with(lx.rest, <<"=">>)
    THEN LexItem(Some(Token(Symbol(CASE c = "<" -> "LessThanOrEqual"
                                     [] c = ">" -> "GreaterThanOrEqual"
                                     [] c = "=" -> "EqualsEquals"
                                     [] c = "!" -> "NotEquals"),
                            c_at)),
                 [lx EXCEPT !.position = @ + 1, !.rest = Tail(lx.rest)])
    ELSE IF c = "!"
    THEN LexItem(Some(SQLError("InvalidCharacter", <<"!">>, lx.position)), lx)
    ELSE LexItem(Some(Token(Symbol(CASE c = "<" -> "LessThan"
                                     [] c = ">" -> "GreaterThan"
                                     [] c = "=" -> "Equals"),
                            c_at)),
                 lx)

SingleCharTokens ==
    {<<"(", "LeftParen">>, <<")", "RightParen">>, <<"+", "Plus">>, <<"-", "Minus">>,
     <<"*", "Asterisk">>, <<"/", "Slash">>, <<",", "Comma">>, <<";", "Semicolon">>}

\* the match on the first character; lx is the lexer once the character is taken
lex_started(lx, c, c_at, c_rest) ==
    IF char_is_digit(c) THEN lex_number(lx, c, c_at, c_rest)
    ELSE IF c = "\"" THEN lex_string(lx, c_at, "\"")
    ELSE IF c = "'" THEN lex_string(lx, c_at, "'")
    ELSE IF char_is_alphabetic(c) THEN lex_keyword(lx, c, c_at, c_rest)
    ELSE IF c \in {"<", ">", "!", "="} THEN lex_maybe_equals(lx, c, c_at)
    ELSE IF \E t \in SingleCharTokens : t[1] = c
    THEN LexItem(Some(Token(Symbol((CHOOSE t \in SingleCharTokens : t[1] = c)[2]), c_at)), lx)
    ELSE LexItem(Some(SQLError("InvalidCharacter", <<c>>, lx.position)), lx)

\* Iterator for Lexer: the item (None at the end of the text) and the lexer after it
Lexer_next(lx) ==
    IF lx.peeked # None
    THEN LexItem(lx.peeked, [lx EXCEPT !.peeked = None])
    ELSE LET on_skipped(s) ==
                 IF s.rest = <<>> THEN LexItem(None, s)
                 ELSE lex_started([s EXCEPT !.rest = Tail(s.rest),
                                            !.position = @ + len_utf8(Head(s.rest))],
                                  Head(s.rest), s.position, s.rest)
         IN  With(skip_whitespace_and_comments(lx), on_skipped)

\* Lexer::peek
Lexer_peek(lx) ==
    IF lx.peeked # None
    THEN LexItem(lx.peeked, lx)
    ELSE LET on_next(n) == LexItem(n.item, [n.lx EXCEPT !.peeked = n.item])
         IN  With(Invoke("Lexer_next", <<lx>>), on_next)

(***************************************************************************)
(* SQL front end, parser/op.rs, parser/mod.rs and parser/stmt.  A parser   *)
(* method returns its Result and the lexer as the call leaves it.          *)
(* Expressions and statements are tuples that begin with the variant.      *)
(***************************************************************************)
POk(value, lx) == [status |-> "Ok", detail |-> <<>>, pos |-> 0, value |-> value, lx |-> lx]
PErr(kind, detail, pos, lx) ==
    [status |-> kind, detail |-> detail, pos |-> pos, value |-> <<>>, lx |-> lx]

\* a token kind inside an error kind
Show(kind) == <<kind.kind>> \o kind.value

\* self.lexer.next().ok_or(SQLError { kind: UnexpectedEnd, pos: self.lexer.position })??
next_token(lx) ==
    LET on_next(n) ==
            IF n.item = None THEN PErr("UnexpectedEnd", <<>>, n.lx.position, n.lx)
            ELSE IF n.item[1].status # "Ok"
            THEN PErr(n.item[1].status, n.item[1].kind.value, n.item[1].pos, n.lx)
            ELSE POk(n.item[1], n.lx)
    IN  With(Invoke("Lexer_next", <<lx>>), on_next)

\* Lexer::expect_token, through Lexer::expect_where
expect_token(lx, expected) ==
    LET on_next(n) ==
            IF n.item = None THEN PErr("UnexpectedEnd", <<>>, n.lx.position, n.lx)
            ELSE IF n.item[1].status # "Ok"
            THEN PErr(n.item[1].status, n.item[1].kind.value, n.item[1].pos, n.lx)
            ELSE IF n.item[1].kind = expected THEN POk(<<>>, n.lx)
            ELSE PErr("UnexpectedTokenKind",
                      Show(expected) \o <<"got">> \o Show(n.item[1].kind), n.item[1].pos, n.lx)
    IN  With(Invoke("Lexer_next", <<lx>>), on_next)

\* whether Lexer::peek shows Some(Ok(token)) of the given kind
peek_is(p, kind) == p.item # None /\ p.item[1].status = "Ok" /\ p.item[1].kind = kind

\* impl TryFrom<Token> for Op
Op_try_from(token) ==
    LET k == token.kind
    IN  IF k = Keyword("And") THEN Some("And")
        ELSE IF k = Keyword("Or") THEN Some("Or")
        ELSE IF k = Keyword("Not") THEN Some("Not")
        ELSE IF k = Symbol("Plus") THEN Some("Add")
        ELSE IF k = Symbol("Minus") THEN Some("Sub")
        ELSE IF k = Symbol("Asterisk") THEN Some("Mul")
        ELSE IF k = Symbol("Slash") THEN Some("Div")
        ELSE IF k.kind \in {"EqualsEquals", "NotEquals", "LessThan", "GreaterThan",
                            "LessThanOrEqual", "GreaterThanOrEqual"}
        THEN Some(k.kind)
        ELSE None

prefix_binding_power(op) == IF op \in {"Not", "Sub"} THEN Some(7) ELSE None

infix_binding_power_one_row(op) ==
    IF op = "Not" THEN None ELSE Some(<<1, 2>>)

infix_binding_power(op) ==
    IF op \in {"And", "Or"} THEN Some(<<1, 2>>)
    ELSE IF op \in {"NotEquals", "EqualsEquals", "LessThan", "GreaterThan",
                    "LessThanOrEqual", "GreaterThanOrEqual"}
    THEN Some(<<3, 4>>)
    ELSE IF op \in {"Add", "Sub"} THEN Some(<<5, 6>>)
    ELSE IF op \in {"Mul", "Div"} THEN Some(<<6, 7>>)
    ELSE None

\* the tokens at which the operator loop of expr_bp stops
ExprStopKinds ==
    {Symbol("Comma"), Symbol("RightParen"), Symbol("Semicolon"), Keyword("From"),
     Keyword("Where"), Keyword("Order"), Keyword("Desc"), Keyword("Asc"), Keyword("Limit"),
     Keyword("Offset")}

Literal(kind, value) == <<"Literal", <<kind>> \o value>>
Identifier(id) == <<"Identifier", id>>
Wildcard == <<"Wildcard">>
UnaryOp(op, rhs) == <<"UnaryOp", op, rhs>>
BinaryOp(lhs, op, rhs) == <<"BinaryOp", lhs, op, rhs>>
AggregateFunction(kind, expr) == <<"AggregateFunction", kind, expr>>


\* Parser::expr_bp: the first token, then the operator loop
expr_bp(lx, min_bp) ==
    LET on_lhs(lhs) ==
            IF lhs.status # "Ok" THEN lhs
            ELSE Invoke("expr_bp_loop", <<lhs.lx, lhs.value, min_bp>>)
        on_token(t) ==
            IF t.status # "Ok" THEN t
            ELSE LET token == t.value
                     k == t.value.kind
                 IN  IF k.kind = "String" THEN on_lhs(POk(Literal("String", k.value), t.lx))
                     ELSE IF k.kind = "Number"
                     THEN on_lhs(POk(Literal("Number", k.value), t.lx))
                     ELSE IF k = Keyword("True")
                     THEN on_lhs(POk(Literal("Boolean", <<"true">>), t.lx))
                     ELSE IF k = Keyword("False")
                     THEN on_lhs(POk(Literal("Boolean", <<"false">>), t.lx))
                     ELSE IF k.kind = "Identifier" THEN on_lhs(POk(Identifier(k.value), t.lx))
                     ELSE IF k = Symbol("Asterisk") THEN on_lhs(POk(Wildcard, t.lx))
                     ELSE IF k = Symbol("LeftParen")
                     THEN With(Invoke("expr_bp_paren", <<t.lx, token>>), on_lhs)
                     ELSE IF k = Symbol("Minus") \/ k = Keyword("Not")
                     THEN With(Invoke("parse_unary_op", <<t.lx, token>>), on_lhs)
                     ELSE IF k.kind = "Keyword" /\ k.value[1] = "Aggregate"
                     THEN With(Invoke("parse_aggregate_function", <<t.lx, k.value[2]>>), on_lhs)
                     ELSE PErr("Other", Show(k), token.pos, t.lx)
    IN  With(Invoke("next_token", <<lx>>), on_token)

\* the TokenKind::LeftParen arm of expr_bp
expr_bp_paren(lx, token) ==
    LET on_inner(inner) ==
            LET on_close(c) == IF c.status # "Ok" THEN c ELSE POk(inner.value, c.lx)
            IN  IF inner.status # "Ok"
                THEN PErr("UnclosedParenthesis", <<>>, token.pos, inner.lx)
                ELSE With(Invoke("expect_token", <<inner.lx, Symbol("RightParen")>>), on_close)
    IN  With(Invoke("expr_bp", <<lx, 0>>), on_inner)

\* the while loop of expr_bp
expr_bp_loop(lx, lhs, min_bp) ==
    LET on_peek(p) ==
            LET token == p.item[1]
                on_op(op) ==
                    LET on_rhs(rhs) ==
                            IF rhs.status # "Ok" THEN rhs
                            ELSE Invoke("expr_bp_loop", <<rhs.lx, BinaryOp(lhs, op[1], rhs.value),
                                                          min_bp>>)
                        on_power(bp) ==
                            IF bp = None
                            THEN PErr("InvalidOperator", Show(token.kind), token.pos, p.lx)
                            ELSE IF bp[1][1] < min_bp THEN POk(lhs, p.lx)
                            ELSE With(Invoke("expr_bp", <<Lexer_advance(p.lx), bp[1][2]>>),
                                      on_rhs)
                    IN  IF op = None
                        THEN PErr("InvalidOperator", Show(token.kind), token.pos, p.lx)
                        ELSE With(infix_binding_power(op[1]), on_power)
            IN  IF p.item = None \/ p.item[1].status # "Ok" THEN POk(lhs, p.lx)
                ELSE IF token.kind \in ExprStopKinds THEN POk(lhs, p.lx)
                ELSE With(Op_try_from(token), on_op)
    IN  With(Invoke("Lexer_peek", <<lx>>), on_peek)

\* Parser::parse_unary_op
parse_unary_op(lx, tok) ==
    LET on_op(op) ==
            LET on_rhs(rhs) ==
                    IF rhs.status # "Ok" THEN rhs ELSE POk(UnaryOp(op[1], rhs.value), rhs.lx)
            IN  IF op = None THEN PErr("InvalidOperator", Show(tok.kind), tok.pos, lx)
                ELSE IF prefix_binding_power(op[1]) = None
                THEN PErr("InvalidPrefixOperator", Show(tok.kind), tok.pos, lx)
                ELSE With(Invoke("expr_bp", <<lx, prefix_binding_power(op[1])[1]>>), on_rhs)
    IN  With(Op_try_from(tok), on_op)

\* Parser::parse_aggregate_function
parse_aggregate_function(lx, agg) ==
    LET on_expr(e) ==
            LET on_close(c) ==
                    IF c.status # "Ok" THEN c ELSE POk(AggregateFunction(agg, e.value), c.lx)
            IN  IF e.status # "Ok" THEN e
                ELSE With(Invoke("expect_token", <<e.lx, Symbol("RightParen")>>), on_close)
        on_open(o) ==
            IF o.status # "Ok" THEN o ELSE With(Invoke("expr_bp", <<o.lx, 0>>), on_expr)
    IN  With(Invoke("expect_token", <<lx, Symbol("LeftParen")>>), on_open)

\* Parser::parse_identifier
parse_identifier(lx) ==
    LET on_next(n) ==
            IF n.item = None THEN PErr("UnexpectedEnd", <<>>, n.lx.position, n.lx)
            ELSE IF n.item[1].status # "Ok"
            THEN PErr(n.item[1].status, n.item[1].kind.value, n.item[1].pos, n.lx)
            ELSE IF n.item[1].kind.kind = "Identifier" THEN POk(n.item[1].kind.value, n.lx)
            ELSE PErr("ExpectedIdentifier", Show(n.item[1].kind), n.lx.position, n.lx)
    IN  With(Invoke("Lexer_next", <<lx>>), on_next)

\* Parser::parse_non_negative_integer
parse_non_negative_integer(lx) ==
    LET on_token(t) ==
            LET tok == t.value
                on_second(n) ==
                    IF /\ n.item # None
                       /\ n.item[1].status = "Ok"
                       /\ n.item[1].kind.kind = "Number"
                       /\ n.item[1].kind.value[1] = "Integer"
                    THEN PErr("ExpectedNonNegativeInteger",
                              <<"-">> \o Tail(n.item[1].kind.value), tok.pos, n.lx)
                    ELSE PErr("Other", Show(Symbol("Minus")), tok.pos, n.lx)
            IN  IF t.status # "Ok" THEN t
                ELSE IF tok.kind.kind = "Number" /\ tok.kind.value[1] = "Integer"
                THEN POk(Some(Tail(tok.kind.value)), t.lx)
                ELSE IF tok.kind = Symbol("Minus")
                THEN With(Invoke("Lexer_next", <<t.lx>>), on_second)
                ELSE PErr("ExpectedInteger", Show(tok.kind), tok.pos, t.lx)
    IN  With(Invoke("next_token", <<lx>>), on_token)


\* Parser::parse_column_definition: the loop over the constraints
parse_column_constraints(lx, name, column_type, constraints) ==
    LET column == <<"Column", name, <<column_type>>, constraints>>
        on_peek(p) ==
            LET on_key(key) ==
                    IF key.status # "Ok" THEN key
                    ELSE IF "PrimaryKey" \in constraints
                    THEN PErr("DuplicateConstraint", name \o <<"PrimaryKey">>,
                              p.item[1].pos, key.lx)
                    ELSE Invoke("parse_column_constraints", <<key.lx, name, column_type,
                                                  constraints \cup {"PrimaryKey"}>>)
                on_nullable(n) ==
                    IF "Nullable" \in constraints
                    THEN PErr("DuplicateConstraint", name \o <<"Nullable">>,
                              p.item[1].pos, n.lx)
                    ELSE Invoke("parse_column_constraints", <<n.lx, name, column_type,
                                                  constraints \cup {"Nullable"}>>)
            IN  IF p.item = None \/ p.item[1].status # "Ok" THEN POk(column, p.lx)
                ELSE IF p.item[1].kind = Keyword("Primary")
                THEN With(Invoke("expect_token", <<Lexer_advance(p.lx), Keyword("Key")>>),
                          on_key)
                ELSE IF p.item[1].kind = Keyword("Nullable")
                THEN With(Invoke("Lexer_next", <<p.lx>>), on_nullable)
                ELSE POk(column, p.lx)
    IN  With(Invoke("Lexer_peek", <<lx>>), on_peek)

\* Parser::parse_column_definition
parse_column_definition(lx) ==
    LET on_name(name) ==
            LET on_type(n) ==
                    IF n.item = None THEN PErr("UnexpectedEnd", <<>>, n.lx.position, n.lx)
                    ELSE IF n.item[1].status # "Ok"
                    THEN PErr(n.item[1].status, n.item[1].kind.value, n.item[1].pos, n.lx)
                    ELSE IF n.item[1].kind \in
                                {Keyword("Int"), Keyword("Float"), Keyword("Text")}
                    THEN Invoke("parse_column_constraints", <<n.lx, name.value,
                                                  n.item[1].kind.value[1], {}>>)
                    ELSE PErr("InvalidDataType", Show(n.item[1].kind), n.item[1].pos, n.lx)
            IN  IF name.status # "Ok" THEN name
                ELSE With(Invoke("Lexer_next", <<name.lx>>), on_type)
    IN  With(Invoke("parse_identifier", <<lx>>), on_name)

\* the closures handed to parse_comma_separated_list: p.expr_bp(0), p.parse_identifier(),
\* p.parse_column_definition(), and p.parse_expression_list() between parentheses
parse_item(lx, which) ==
    IF which = "expression" THEN Invoke("expr_bp", <<lx, 0>>)
    ELSE IF which = "identifier" THEN Invoke("parse_identifier", <<lx>>)
    ELSE IF which = "column" THEN Invoke("parse_column_definition", <<lx>>)
    ELSE LET on_item(item) ==
                 LET on_close(c) == IF c.status # "Ok" THEN c ELSE POk(item.value, c.lx)
                 IN  IF item.status # "Ok" THEN item
                     ELSE With(Invoke("expect_token", <<item.lx, Symbol("RightParen")>>),
                               on_close)
             on_open(o) ==
                 IF o.status # "Ok" THEN o
                 ELSE With(Invoke("parse_comma_separated_list", <<o.lx, "expression">>),
                           on_item)
         IN  With(Invoke("expect_token", <<lx, Symbol("LeftParen")>>), on_open)

\* Parser::parse_comma_separated_list: the loop after the first item
parse_comma_separated_list_more(lx, which, list) ==
    LET on_item(item) ==
            IF item.status # "Ok" THEN item
            ELSE Invoke("parse_comma_separated_list_more", <<item.lx, which, Append(list,
                                                             item.value)>>)
        on_peek(p) ==
            IF peek_is(p, Symbol("Comma"))
            THEN With(Invoke("parse_item", <<Lexer_advance(p.lx), which>>), on_item)
            ELSE POk(list, p.lx)
    IN  With(Invoke("Lexer_peek", <<lx>>), on_peek)

\* Parser::parse_comma_separated_list
parse_comma_separated_list(lx, which) ==
    LET on_first(item) ==
            IF item.status # "Ok" THEN item
            ELSE Invoke("parse_comma_separated_list_more", <<item.lx, which, <<item.value>>>>)
    IN  With(Invoke("parse_item", <<lx, which>>), on_first)

parse_expression_list(lx) == Invoke("parse_comma_separated_list", <<lx, "expression">>)
parse_identifier_list(lx) == Invoke("parse_comma_separated_list", <<lx, "identifier">>)
\* Parser::parse_values: parse_comma_separated_list_in_parenthesis of expression lists
parse_values(lx) == Invoke("parse_comma_separated_list", <<lx, "values">>)

\* Parser::parse_order_by
parse_order_by(lx) ==
    LET on_terms(terms) ==
            LET on_order(p) ==
                    IF peek_is(p, Keyword("Asc"))
                    THEN POk(Some(<<terms.value, Some("Ascending")>>), Lexer_advance(p.lx))
                    ELSE IF peek_is(p, Keyword("Desc"))
                    THEN POk(Some(<<terms.value, Some("Descending")>>), Lexer_advance(p.lx))
                    ELSE POk(Some(<<terms.value, None>>), p.lx)
            IN  IF terms.status # "Ok" THEN terms
                ELSE With(Invoke("Lexer_peek", <<terms.lx>>), on_order)
        on_by(by) ==
            IF by.status # "Ok" THEN by
            ELSE With(Invoke("parse_expression_list", <<by.lx>>), on_terms)
        on_peek(p) ==
            IF peek_is(p, Keyword("Order"))
            THEN With(Invoke("expect_token", <<Lexer_advance(p.lx), Keyword("By")>>), on_by)
            ELSE POk(None, p.lx)
    IN  With(Invoke("Lexer_peek", <<lx>>), on_peek)

\* an optional clause of parse_select_query: when the keyword is next, take it
\* and parse what follows it; the clause is absent otherwise
select_clause(lx, keyword, what) ==
    LET on_peek(p) ==
            IF ~peek_is(p, Keyword(keyword)) THEN POk(None, p.lx)
            ELSE IF what = "identifier"
            THEN LET on_id(r) == IF r.status # "Ok" THEN r ELSE POk(Some(r.value), r.lx)
                 IN  With(Invoke("parse_identifier", <<Lexer_advance(p.lx)>>), on_id)
            ELSE IF what = "expression"
            THEN LET on_expr(r) == IF r.status # "Ok" THEN r ELSE POk(Some(r.value), r.lx)
                 IN  With(Invoke("expr_bp", <<Lexer_advance(p.lx), 0>>), on_expr)
            ELSE Invoke("parse_non_negative_integer", <<Lexer_advance(p.lx)>>)
    IN  With(Invoke("Lexer_peek", <<lx>>), on_peek)

\* Parser::parse_select_query
parse_select_query(lx) ==
    LET on_columns(columns) ==
          LET on_table(table) ==
                LET on_where(where_clause) ==
                      LET on_order_by(order_by) ==
                            LET on_limit(limit) ==
                                  LET on_offset(offset) ==
                                        LET on_semicolon(semi) ==
                                              IF semi.status = "UnexpectedEnd"
                                              THEN PErr("ExpectedCommaOrSemicolon", <<>>,
                                                        semi.pos, semi.lx)
                                              ELSE IF semi.status # "Ok" THEN semi
                                              ELSE POk(<<"Select", columns.value, table.value,
                                                         where_clause.value, order_by.value,
                                                         limit.value, offset.value>>, semi.lx)
                                        IN  IF offset.status # "Ok" THEN offset
                                            ELSE With(Invoke("expect_token", <<offset.lx,
                                                                   Symbol("Semicolon")>>),
                                                      on_semicolon)
                                  IN  IF limit.status # "Ok" THEN limit
                                      ELSE With(Invoke("select_clause",
                                                       <<limit.lx, "Offset", "integer">>),
                                                on_offset)
                            IN  IF order_by.status # "Ok" THEN order_by
                                ELSE With(Invoke("select_clause",
                                                 <<order_by.lx, "Limit", "integer">>),
                                          on_limit)
                      IN  IF where_clause.status # "Ok" THEN where_clause
                          ELSE With(Invoke("parse_order_by", <<where_clause.lx>>), on_order_by)
                IN  IF table.status # "Ok" THEN table
                    ELSE With(Invoke("select_clause", <<table.lx, "Where", "expression">>),
                              on_where)
          IN  IF columns.status = "UnexpectedEnd"
              THEN PErr("ExpectedExpression", <<>>, columns.pos, columns.lx)
              ELSE IF columns.status # "Ok" THEN columns
              ELSE With(Invoke("select_clause", <<columns.lx, "From", "identifier">>), on_table)
    IN  With(Invoke("parse_expression_list", <<lx>>), on_columns)

\* Parser::parse_insert_query
parse_insert_query(lx) ==
    LET on_into(into) ==
          LET on_table(table) ==
                LET on_open(o) ==
                      LET on_columns(columns) ==
                            LET on_close(c) ==
                                  LET on_values_keyword(kw) ==
                                        LET on_values(values) ==
                                              LET on_semicolon(semi) ==
                                                    IF semi.status # "Ok" THEN semi
                                                    ELSE POk(<<"Insert", table.value,
                                                               columns.value, values.value>>,
                                                             semi.lx)
                                              IN  IF values.status # "Ok" THEN values
                                                  ELSE With(Invoke("expect_token", <<values.lx,
                                                                         Symbol("Semicolon")>>),
                                                            on_semicolon)
                                        IN  IF kw.status # "Ok" THEN kw
                                            ELSE With(Invoke("parse_values", <<kw.lx>>),
                                                      on_values)
                                  IN  IF c.status # "Ok" THEN c
                                      ELSE With(Invoke("expect_token",
                                                       <<c.lx, Keyword("Values")>>),
                                                on_values_keyword)
                            IN  IF columns.status # "Ok" THEN columns
                                ELSE With(Invoke("expect_token",
                                                 <<columns.lx, Symbol("RightParen")>>),
                                          on_close)
                      IN  IF o.status # "Ok" THEN o
                          ELSE With(Invoke("parse_identifier_list", <<o.lx>>), on_columns)
                IN  IF table.status # "Ok" THEN table
                    ELSE With(Invoke("expect_token", <<table.lx, Symbol("LeftParen")>>),
                              on_open)
          IN  IF into.status # "Ok" THEN into
              ELSE With(Invoke("parse_identifier", <<into.lx>>), on_table)
    IN  With(Invoke("expect_token", <<lx, Keyword("Into")>>), on_into)

\* Parser::parse_create_table_query
parse_create_table_query(lx) ==
    LET on_table(t) ==
          LET on_name(table_name) ==
                LET on_open(o) ==
                      LET on_columns(columns) ==
                            LET on_close(c) ==
                                  LET on_semicolon(semi) ==
                                        IF semi.status # "Ok" THEN semi
                                        ELSE POk(<<"CreateTable", table_name.value,
                                                   columns.value>>, semi.lx)
                                  IN  IF c.status # "Ok" THEN c
                                      ELSE With(Invoke("expect_token",
                                                       <<c.lx, Symbol("Semicolon")>>),
                                                on_semicolon)
                            IN  IF columns.status # "Ok" THEN columns
                                ELSE With(Invoke("expect_token",
                                                 <<columns.lx, Symbol("RightParen")>>),
                                          on_close)
                      IN  IF o.status # "Ok" THEN o
                          ELSE With(Invoke("parse_comma_separated_list", <<o.lx, "column">>),
                                    on_columns)
                IN  IF table_name.status # "Ok" THEN table_name
                    ELSE With(Invoke("expect_token", <<table_name.lx, Symbol("LeftParen")>>),
                              on_open)
          IN  IF t.status # "Ok" THEN t ELSE With(Invoke("parse_identifier", <<t.lx>>), on_name)
    IN  With(Invoke("expect_token", <<lx, Keyword("Table")>>), on_table)

\* Parser::stmt
stmt(lx) ==
    LET on_token(t) ==
            IF t.status # "Ok" THEN t
            ELSE IF t.value.kind = Keyword("Select") THEN Invoke("parse_select_query", <<t.lx>>)
            ELSE IF t.value.kind = Keyword("Insert") THEN Invoke("parse_insert_query", <<t.lx>>)
            ELSE IF t.value.kind = Keyword("Create")
            THEN Invoke("parse_create_table_query", <<t.lx>>)
            ELSE PErr("Other", Show(t.value.kind), t.value.pos, t.lx)
    IN  With(Invoke("next_token", <<lx>>), on_token)

\* self.method(args): the arguments are evaluated, then the method runs
Invoke(method, args) ==
    LET call(a) ==
            CASE method = "Lexer_next" -> Lexer_next(a[1])
              [] method = "Lexer_peek" -> Lexer_peek(a[1])
              [] method = "next_token" -> next_token(a[1])
              [] method = "expect_token" -> expect_token(a[1], a[2])
              [] method = "parse_identifier" -> parse_identifier(a[1])
              [] method = "parse_non_negative_integer" -> parse_non_negative_integer(a[1])
              [] method = "expr_bp_paren" -> expr_bp_paren(a[1], a[2])
              [] method = "expr_bp_loop" -> expr_bp_loop(a[1], a[2], a[3])
              [] method = "expr_bp" -> expr_bp(a[1], a[2])
              [] method = "parse_unary_op" -> parse_unary_op(a[1], a[2])
              [] method = "parse_aggregate_function" -> parse_aggregate_function(a[1], a[2])
              [] method = "parse_item" -> parse_item(a[1], a[2])
              [] method = "parse_comma_separated_list_more" ->
                     parse_comma_separated_list_more(a[1], a[2], a[3])
              [] method = "parse_comma_separated_list" -> parse_comma_separated_list(a[1], a[2])
              [] method = "parse_column_constraints" ->
                     parse_column_constraints(a[1], a[2], a[3], a[4])
              [] method = "parse_column_definition" -> parse_column_definition(a[1])
              [] method = "parse_expression_list" -> parse_expression_list(a[1])
              [] method = "parse_identifier_list" -> parse_identifier_list(a[1])
              [] method = "parse_values" -> parse_values(a[1])
              [] method = "parse_order_by" -> parse_order_by(a[1])
              [] method = "select_clause" -> select_clause(a[1], a[2], a[3])
              [] method = "parse_select_query" -> parse_select_query(a[1])
              [] method = "parse_insert_query" -> parse_insert_query(a[1])
              [] method = "parse_create_table_query" -> parse_create_table_query(a[1])
              [] method = "stmt" -> stmt(a[1])
    IN  With(args, call)

\* an iterator that yields the UnexpectedEnd error as an item
Parser_next_yields_end(lx) ==
    LET on_stmt(r) == [item |-> Some(r), lx |-> r.lx]
    IN  With(Invoke("stmt", <<lx>>), on_stmt)

\* Iterator for Parser: None when stmt returns UnexpectedEnd, else Some of what it returns
Parser_next(lx) ==
    LET on_stmt(r) == IF r.status = "UnexpectedEnd" THEN [item |-> None, lx |-> r.lx]
                      ELSE [item |-> Some(r), lx |-> r.lx]
    IN  With(Invoke("stmt", <<lx>>), on_stmt)

\* Parser::expr
Parser_expr(lx) == Invoke("expr_bp", <<lx, 0>>)

\* the sources of expressions: operands a, b, c, ... joined by infix operators, each
\* operand bare or under one prefix operator, the words one space apart
MaxOperands == 3
ExprOperands == <<<<"a">>, <<"b">>, <<"c">>, <<"d">>, <<"e">>>>
ExprPrefixes == {<<>>, <<"-", " ">>, <<"N", "O", "T", " ">>}
ExprInfixes ==
    {<<"+">>, <<"-">>, <<"*">>, <<"/">>, <<"=", "=">>, <<"!", "=">>, <<"<">>, <<">">>,
     <<"<", "=">>, <<">", "=">>, <<"A", "N", "D">>, <<"O", "R">>}

RECURSIVE ExprText(_, _, _)
ExprText(n, prefixes, infixes) ==
    IF n = 1 THEN prefixes[1] \o ExprOperands[1]
    ELSE ExprText(n - 1, prefixes, infixes)
             \o <<" ">> \o infixes[n - 1] \o <<" ">> \o prefixes[n] \o ExprOperands[n]

ExprSources ==
    UNION {{ExprText(n, prefixes, infixes) :
                prefixes \in [1..n -> ExprPrefixes], infixes \in [1..(n - 1) -> ExprInfixes]} :
           n \in 1..MaxOperands}

\* statement texts: the shapes of the parser's tests, and broken texts
FixedSources ==
    {<<"S", "E", "L", "E", "C", "T", " ", "a", "b", "c", ",", " ", "d", "e", "f", " ", "F",
      "R", "O", "M", " ", "t", ";">>,
     <<"s", "e", "l", "e", "c", "t", " ", "a", " ", "f", "r", "o", "m", " ", "t", " ", "w",
      "h", "e", "r", "e", " ", "a", " ", ">", "=", " ", "1", " ", "o", "r", "d", "e", "r",
      " ", "b", "y", " ", "a", " ", "d", "e", "s", "c", " ", "l", "i", "m", "i", "t", " ",
      "1", " ", "o", "f", "f", "s", "e", "t", " ", "2", ";">>,
     <<"S", "E", "L", "E", "C", "T", " ", "1", ";", " ", "S", "E", "L", "E", "C", "T", " ",
      "2", ";">>,
     <<"S", "E", "L", "E", "C", "T", " ", "a", " ", "b", ";", " ", "S", "E", "L", "E", "C",
      "T", " ", "1", ";">>,
     <<"S", "E", "L", "E", "C", "T", " ", "(", "a", " ", "+", " ", "1", ";">>,
     <<"S", "E", "L", "E", "C", "T", " ", "a", " ", "L", "I", "M", "I", "T", " ", "-", "1",
      ";">>,
     <<"S", "E", "L", "E", "C", "T", " ", "'", "x", "'", " ", "-", "-", " ", "c", "\n", ";">>,
     <<"S", "E", "L", "E", "C", "T", " ", "/", "*", " ", "c", " ", "*", "/", " ", "1", " ",
      "/", "*", " ", "d">>,
     <<"S", "E", "L", "E", "C", "T", " ", "\"", "x">>,
     <<"S", "E", "L", "E", "C", "T", " ", "1", ".", "2", ".", "3", ";">>,
     <<"S", "E", "L", "E", "C", "T", " ", "U+00E9", ",", " ", "U+20AC", ";">>,
     <<"I", "N", "S", "E", "R", "T", " ", "I", "N", "T", "O", " ", "t", " ", "(", "a", ",",
      " ", "b", ")", " ", "V", "A", "L", "U", "E", "S", " ", "(", "1", ",", " ", "2", ")",
      ",", " ", "(", "3", ",", " ", "4", ")", ";">>,
     <<"I", "N", "S", "E", "R", "T", " ", "I", "N", "T", "O", " ", "t", " ", "(", "a", ")",
      " ", "V", "A", "L", "U", "E", "S", " ", "(", "1">>,
     <<"C", "R", "E", "A", "T", "E", " ", "T", "A", "B", "L", "E", " ", "t", " ", "(", "a",
      " ", "I", "N", "T", ",", " ", "b", " ", "T", "E", "X", "T", ")", ";">>,
     <<"C", "R", "E", "A", "T", "E", " ", "T", "A", "B", "L", "E", " ", "t", " ", "(", "a",
      " ", "b", ")", ";">>,
     <<" ", " ", "\n">>}

\* and every text of at most MaxWords of these words, a space after each
MaxWords == 3
SqlWords ==
    {<<"S", "E", "L", "E", "C", "T">>, <<"F", "R", "O", "M">>, <<"a">>, <<"1">>, <<",">>,
     <<";">>, <<"(">>, <<")">>, <<"+">>, <<"<", "=">>, <<"!">>, <<"'">>, <<"-", "-">>,
     <<"/", "*">>, <<"*", "/">>, <<"\n">>}

RECURSIVE WordTexts(_)
WordTexts(n) ==
    IF n = 0 THEN {<<>>}
    ELSE {word \o <<" ">> \o text : word \in SqlWords, text \in WordTexts(n - 1)}

SqlSources == FixedSources \cup UNION {WordTexts(n) : n \in 0..MaxWords}

PResult(op, yielded, r, consumed, took_peeked) ==
    [op |-> op, yielded |-> yielded, status |-> r.status, detail |-> r.detail, pos |-> r.pos,
     value |-> r.value, consumed |-> consumed, took_peeked |-> took_peeked]

\* no parser yet
InitSql ==
    /\ lexer = Lexer_new(<<>>)
    /\ pstate = "none"
    /\ presult = PResult("none", FALSE, POk(<<>>, <<>>), 0, FALSE)

(***************************************************************************)
(* Initial state: DiskManager::new on an empty file, then PageCache::new;  *)
(* the table-page buffer holds an empty leaf.                              *)
(***************************************************************************)
Init ==
    LET dm == DiskManager_new(<<>>)
        c == PageCache_new(dm)
    IN  /\ file = c.file
        /\ page_count = c.page_count
        /\ read_buf = ZeroPage
        /\ write_buf = ZeroPage
        /\ frames = c.frames
        /\ page_table = c.page_table
        /\ clock_hand = c.clock_hand
        /\ guard = None
        /\ leaked = [f \in FrameIds |-> 0]
        /\ written = [p \in 0..(MaxPages - 1) |-> <<>>]
        /\ fetched = Some(<<>>)
        /\ result = Result("new", dm.status, None)
        /\ tpage = init_empty(ZeroPage, LEAF_SPEC).page
        /\ rows = [r \in RowIds |-> None]
        /\ tresult = TResult("init_empty", init_empty(ZeroPage, LEAF_SPEC).status, None)
        /\ tbefore = ZeroPage
        /\ targs = <<>>
        /\ InitCodec
        /\ InitSql

(***************************************************************************)
(* Calls on the page cache.  A PinGuard holds the exclusive borrow of the  *)
(* cache, so cache methods run only while no guard is held.                *)
(***************************************************************************)
SetCache(c) ==
    /\ file' = c.file
    /\ page_count' = c.page_count
    /\ frames' = c.frames
    /\ page_table' = c.page_table
    /\ clock_hand' = c.clock_hand

FetchPage(page_id) ==
    /\ guard = None
    /\ page_id \in DOMAIN page_table => frames[page_table[page_id]].pin_count < MaxPins
    /\ \E r \in {fetch_page(Cache, page_id)} :
           /\ SetCache(r.c)
           /\ guard' = r.frame
           /\ fetched' = IF /\ fetched # None
                            /\ r.status = "Ok"
                            /\ Len(fetched[1]) <= FrameCount
                            /\ \A i \in 1..Len(fetched[1]) : fetched[1][i] # page_id
                         THEN Some(Append(fetched[1], page_id))
                         ELSE None
           /\ result' = Result("fetch_page", r.status, Some(page_id))
    /\ UNCHANGED <<read_buf, write_buf, leaked, written>>
    /\ UNCHANGED <<pageVars, codecVars, sqlVars>>

\* the file grows to MaxPages pages at most; a call that finds every frame pinned
\* allocates nothing and is explored at any size
NewPage ==
    /\ guard = None
    /\ page_count < MaxPages \/ \A f \in FrameIds : frames[f].pin_count > 0
    /\ \E r \in {new_page(Cache)} :
           /\ SetCache(r.c)
           /\ guard' = r.frame
           /\ result' = Result("new_page", r.status, r.page_id)
    /\ fetched' = None
    /\ UNCHANGED <<read_buf, write_buf, leaked, written>>
    /\ UNCHANGED <<pageVars, codecVars, sqlVars>>

FlushPage(page_id) ==
    /\ guard = None
    /\ \E r \in {flush_page(Cache, page_id)} :
           /\ SetCache(r.c)
           /\ result' = Result("flush_page", r.status, Some(page_id))
    /\ fetched' = None
    /\ UNCHANGED <<read_buf, write_buf, guard, leaked, written>>
    /\ UNCHANGED <<pageVars, codecVars, sqlVars>>

FlushAll ==
    /\ guard = None
    /\ \E r \in {flush_all(Cache)} :
           /\ SetCache(r.c)
           /\ result' = Result("flush_all", r.status, r.page_id)
    /\ fetched' = None
    /\ UNCHANGED <<read_buf, write_buf, guard, leaked, written>>
    /\ UNCHANGED <<pageVars, codecVars, sqlVars>>

\* guard.page_mut()[offset] = value
PageMut(offset, value) ==
    /\ guard # None
    /\ LET frame_id == guard[1]
           fr == page_mut_store(frames, frame_id, offset, value)
       IN  /\ frames' = fr
           /\ written' = [written EXCEPT ![fr[frame_id].page_id[1]] =
                              Slice(fr[frame_id].data, 0, PAGE_DATA_END)]
           /\ result' = Result("page_mut", "Ok", None)
    /\ UNCHANGED <<file, page_count, read_buf, write_buf, page_table, clock_hand, guard, leaked,
                   fetched>>
    /\ UNCHANGED <<pageVars, codecVars, sqlVars>>

\* the guard goes out of scope
DropGuard ==
    /\ guard # None
    /\ frames' = PinGuard_drop(frames, guard[1])
    /\ guard' = None
    /\ result' = Result("drop", "Ok", None)
    /\ UNCHANGED <<file, page_count, read_buf, write_buf, page_table, clock_hand, leaked, written,
                   fetched>>
    /\ UNCHANGED <<pageVars, codecVars, sqlVars>>

\* std::mem::forget(guard): the borrow ends and Drop never runs
RECURSIVE SumUpTo(_, _)
SumUpTo(count, n) == IF n = 0 THEN 0 ELSE count[n - 1] + SumUpTo(count, n - 1)

ForgetGuard ==
    /\ guard # None
    /\ SumUpTo(leaked, FrameCount) < MaxLeaked
    /\ leaked' = [leaked EXCEPT ![guard[1]] = @ + 1]
    /\ guard' = None
    /\ result' = Result("forget", "Ok", None)
    /\ fetched' = None
    /\ UNCHANGED <<file, page_count, read_buf, write_buf, frames, page_table, clock_hand, written>>
    /\ UNCHANGED <<pageVars, codecVars, sqlVars>>

Next ==
    \/ \E p \in DataPageIds : FetchPage(p)
    \/ NewPage
    \/ \E p \in DataPageIds : FlushPage(p)
    \/ FlushAll
    \/ \E s \in Stores : PageMut(s[1], s[2])
    \/ DropGuard
    \/ ForgetGuard

Spec == Init /\ [][Next]_vars

(***************************************************************************)
(* The cache goes out of scope: Drop for PageCache runs the best-effort    *)
(* flush.  No guard borrows the cache then; forgotten guards may have left *)
(* frames pinned.  One write_page of the flush may meet an I/O error.      *)
(***************************************************************************)
IoFaults == {"seek", "sync_all"}
DropFaults == {None} \cup {Some([frame |-> f, kind |-> k]) : f \in FrameIds, k \in IoFaults}

\* the frames the flush on drop has to write
Flushable(fr, f) == fr[f].dirty /\ fr[f].page_id # None /\ fr[f].pin_count = 0

CacheAlive == result.op # "drop_cache"

DropCache(fault) ==
    /\ CacheAlive
    /\ guard = None
    /\ fault # None => Flushable(frames, fault[1].frame)
    /\ SetCache(flush_best_effort_on_drop(Cache, fault))
    /\ result' = Result("drop_cache", "Ok", None)
    /\ fetched' = None
    /\ UNCHANGED <<read_buf, write_buf, guard, leaked, written>>
    /\ UNCHANGED <<pageVars, codecVars, sqlVars>>

NextDrop ==
    \/ CacheAlive /\ \E p \in DataPageIds : FetchPage(p)
    \/ CacheAlive /\ NewPage
    \/ CacheAlive /\ \E s \in Stores : PageMut(s[1], s[2])
    \/ CacheAlive /\ DropGuard
    \/ CacheAlive /\ ForgetGuard
    \/ \E fault \in DropFaults : DropCache(fault)

SpecDrop == Init /\ [][NextDrop]_vars

(***************************************************************************)
(* The page cache with the header page and the first data page fetched;   *)
(* guards are released, never forgotten.                                   *)
(***************************************************************************)
NextHeader ==
    \/ \E p \in {HEADER_PAGE_ID, FIRST_DATA_PAGE_ID} : FetchPage(p)
    \/ NewPage
    \/ FlushPage(HEADER_PAGE_ID)
    \/ FlushAll
    \/ \E s \in Stores : PageMut(s[1], s[2])
    \/ DropGuard

SpecHeader == Init /\ [][NextHeader]_vars

(***************************************************************************)
(* Calls on a disk manager that no page cache owns.                        *)
(***************************************************************************)
DmNewPage ==
    /\ page_count < MaxPages
    /\ \E r \in {DiskManager_new_page(file, page_count)} :
           /\ file' = r.file
           /\ page_count' = r.page_count
           /\ result' = Result("new_page", r.status, Some(r.page_id))
    /\ UNCHANGED <<read_buf, write_buf, cacheVars>>
    /\ UNCHANGED <<pageVars, codecVars, sqlVars>>

DmReadPage(page_id) ==
    /\ \E r \in {DiskManager_read_page(file, page_count, page_id, read_buf)} :
           /\ read_buf' = r.buf
           /\ result' = Result("read_page", r.status, Some(page_id))
    /\ UNCHANGED <<file, page_count, write_buf, cacheVars>>
    /\ UNCHANGED <<pageVars, codecVars, sqlVars>>

DmWritePage(page_id, buf) ==
    /\ \E r \in {DiskManager_write_page(file, page_count, page_id, buf)} :
           /\ file' = r.file
           /\ write_buf' = buf
           /\ written' = IF r.status = "Ok"
                         THEN [written EXCEPT ![page_id] = Slice(buf, 0, PAGE_DATA_END)]
                         ELSE written
           /\ result' = Result("write_page", r.status, Some(page_id))
    /\ UNCHANGED <<page_count, read_buf, frames, page_table, clock_hand, guard, leaked, fetched>>
    /\ UNCHANGED <<pageVars, codecVars, sqlVars>>

\* the DiskManager is dropped and DiskManager::new opens the same file again
DmReopen ==
    /\ \E r \in {DiskManager_new(file)} :
           /\ file' = r.file
           /\ page_count' = r.page_count
           /\ result' = Result("new", r.status, None)
    /\ UNCHANGED <<read_buf, write_buf, cacheVars>>
    /\ UNCHANGED <<pageVars, codecVars, sqlVars>>

NextDisk ==
    \/ DmNewPage
    \/ \E p \in PageIds : DmReadPage(p)
    \/ \E p \in PageIds, b \in Buffers : DmWritePage(p, b)

SpecDisk == Init /\ [][NextDisk]_vars

\* offsets at which a stored page is damaged: the first and the last byte of the
\* data region and the last byte of the checksum field
CorruptOffsets == {0, PAGE_DATA_END - 1, PAGE_SIZE - 1}

\* the byte with its lowest bit flipped
flip_bit(byte) == IF byte % 2 = 0 THEN byte + 1 ELSE byte - 1

\* another file handle flips a bit of one byte of a stored page that was intact
\* until then
DmCorrupt(page_id, offset) ==
    /\ page_id < page_count
    /\ checksum_matches(Slice(file, page_offset(page_id), page_offset(page_id) + PAGE_SIZE))
    /\ file' = write_all(file, page_offset(page_id) + offset,
                         <<flip_bit(file[page_offset(page_id) + offset + 1])>>)
    /\ result' = Result("corrupt", "Ok", Some(page_id))
    /\ UNCHANGED <<page_count, read_buf, write_buf, cacheVars>>
    /\ UNCHANGED <<pageVars, codecVars, sqlVars>>

\* sessions on data pages whose stored bytes get damaged behind the manager's back
NextCorrupt ==
    \/ DmNewPage
    \/ \E p \in DataPageIds : DmReadPage(p)
    \/ \E p \in DataPageIds, b \in Buffers : DmWritePage(p, b)
    \/ \E p \in DataPageIds, o \in CorruptOffsets : DmCorrupt(p, o)

SpecCorrupt == Init /\ [][NextCorrupt]_vars

\* sessions that write data pages only, each ended by opening the file again
NextReopen ==
    \/ DmNewPage
    \/ \E p \in DataPageIds : DmReadPage(p)
    \/ \E p \in DataPageIds, b \in Buffers : DmWritePage(p, b)
    \/ DmReopen

SpecReopen == Init /\ [][NextReopen]_vars

(***************************************************************************)
(* Calls on a table page through the wrapper its buffer deserialises to.   *)
(***************************************************************************)
LeafInitEmpty ==
    /\ \E r \in {init_empty(tpage, LEAF_SPEC)} :
           /\ tpage' = r.page
           /\ rows' = [x \in RowIds |-> None]
           /\ tresult' = TResult("init_empty", r.status, None)
    /\ tbefore' = tpage
    /\ targs' = <<>>
    /\ UNCHANGED <<storageVars, codecVars, sqlVars>>

LeafSearch(row_id) ==
    /\ TablePageMut_from_bytes(tpage) = "Leaf"
    /\ \E r \in {TableLeafPageRef_search(tpage, row_id)} :
           tresult' = TResult("search", r.status, r.value)
    /\ tbefore' = tpage
    /\ targs' = <<row_id>>
    /\ UNCHANGED <<tpage, rows, storageVars, codecVars, sqlVars>>

LeafInsert(row_id, payload) ==
    /\ TablePageMut_from_bytes(tpage) = "Leaf"
    /\ \E r \in {TableLeafPageMut_insert(tpage, row_id, payload)} :
           /\ tpage' = r.page
           /\ rows' = IF r.status = "Ok" THEN [rows EXCEPT ![row_id] = Some(payload)] ELSE rows
           /\ tresult' = TResult("insert", r.status, None)
    /\ tbefore' = tpage
    /\ targs' = <<row_id, payload>>
    /\ UNCHANGED <<storageVars, codecVars, sqlVars>>

LeafUpdate(row_id, payload) ==
    /\ TablePageMut_from_bytes(tpage) = "Leaf"
    /\ \E r \in {TableLeafPageMut_update(tpage, row_id, payload)} :
           /\ tpage' = r.page
           /\ rows' = IF r.status = "Ok" THEN [rows EXCEPT ![row_id] = Some(payload)] ELSE rows
           /\ tresult' = TResult("update", r.status, None)
    /\ tbefore' = tpage
    /\ targs' = <<row_id, payload>>
    /\ UNCHANGED <<storageVars, codecVars, sqlVars>>

LeafDelete(row_id) ==
    /\ TablePageMut_from_bytes(tpage) = "Leaf"
    /\ \E r \in {TableLeafPageMut_delete(tpage, row_id)} :
           /\ tpage' = r.page
           /\ rows' = IF r.status = "Ok" THEN [rows EXCEPT ![row_id] = None] ELSE rows
           /\ tresult' = TResult("delete", r.status, None)
    /\ tbefore' = tpage
    /\ targs' = <<row_id>>
    /\ UNCHANGED <<storageVars, codecVars, sqlVars>>

LeafDefragment ==
    /\ TablePageMut_from_bytes(tpage) = "Leaf"
    /\ \E r \in {TableLeafPageMut_defragment(tpage)} :
           /\ tpage' = r.page
           /\ tresult' = TResult("defragment", r.status, None)
    /\ tbefore' = tpage
    /\ targs' = <<>>
    /\ UNCHANGED <<rows, storageVars, codecVars, sqlVars>>

InteriorInitEmpty ==
    /\ \E r \in {TableInteriorPageMut_init_empty(tpage, RightmostChild)} :
           /\ tpage' = r.page
           /\ rows' = [x \in RowIds |-> None]
           /\ tresult' = TResult("init_empty", r.status, None)
    /\ tbefore' = tpage
    /\ targs' = <<RightmostChild>>
    /\ UNCHANGED <<storageVars, codecVars, sqlVars>>

InteriorSearch(row_id) ==
    /\ TablePageMut_from_bytes(tpage) = "Interior"
    /\ \E r \in {TableInteriorPageRef_search(tpage, row_id)} :
           tresult' = TResult("search", r.status, r.value)
    /\ tbefore' = tpage
    /\ targs' = <<row_id>>
    /\ UNCHANGED <<tpage, rows, storageVars, codecVars, sqlVars>>

InteriorChildForRowId(row_id) ==
    /\ TablePageMut_from_bytes(tpage) = "Interior"
    /\ \E r \in {TableInteriorPageRef_child_for_row_id(tpage, row_id)} :
           tresult' = TResult("child_for_row_id", r.status, r.value)
    /\ tbefore' = tpage
    /\ targs' = <<row_id>>
    /\ UNCHANGED <<tpage, rows, storageVars, codecVars, sqlVars>>

InteriorInsert(row_id, left_child) ==
    /\ TablePageMut_from_bytes(tpage) = "Interior"
    /\ \E r \in {TableInteriorPageMut_insert(tpage, row_id, left_child)} :
           /\ tpage' = r.page
           /\ rows' = IF r.status = "Ok" THEN [rows EXCEPT ![row_id] = Some(left_child)]
                      ELSE rows
           /\ tresult' = TResult("insert", r.status, None)
    /\ tbefore' = tpage
    /\ targs' = <<row_id, left_child>>
    /\ UNCHANGED <<storageVars, codecVars, sqlVars>>

InteriorUpdate(row_id, left_child) ==
    /\ TablePageMut_from_bytes(tpage) = "Interior"
    /\ \E r \in {TableInteriorPageMut_update(tpage, row_id, left_child)} :
           /\ tpage' = r.page
           /\ rows' = IF r.status = "Ok" THEN [rows EXCEPT ![row_id] = Some(left_child)]
                      ELSE rows
           /\ tresult' = TResult("update", r.status, None)
    /\ tbefore' = tpage
    /\ targs' = <<row_id, left_child>>
    /\ UNCHANGED <<storageVars, codecVars, sqlVars>>

InteriorDelete(row_id) ==
    /\ TablePageMut_from_bytes(tpage) = "Interior"
    /\ \E r \in {TableInteriorPageMut_delete(tpage, row_id)} :
           /\ tpage' = r.page
           /\ rows' = IF r.status = "Ok" THEN [rows EXCEPT ![row_id] = None] ELSE rows
           /\ tresult' = TResult("delete", r.status, None)
    /\ tbefore' = tpage
    /\ targs' = <<row_id>>
    /\ UNCHANGED <<storageVars, codecVars, sqlVars>>

InteriorDefragment ==
    /\ TablePageMut_from_bytes(tpage) = "Interior"
    /\ \E r \in {TableInteriorPageMut_defragment(tpage)} :
           /\ tpage' = r.page
           /\ tresult' = TResult("defragment", r.status, None)
    /\ tbefore' = tpage
    /\ targs' = <<>>
    /\ UNCHANGED <<rows, storageVars, codecVars, sqlVars>>

NextPage ==
    \/ LeafInitEmpty
    \/ \E r \in RowIds : LeafSearch(r)
    \/ \E r \in RowIds, p \in Payloads : LeafInsert(r, p)
    \/ \E r \in RowIds, p \in Payloads : LeafUpdate(r, p)
    \/ \E r \in RowIds : LeafDelete(r)
    \/ LeafDefragment
    \/ InteriorInitEmpty
    \/ \E r \in RowIds : InteriorSearch(r)
    \/ \E r \in RouteTargets : InteriorChildForRowId(r)
    \/ \E r \in RowIds, c \in Children : InteriorInsert(r, c)
    \/ \E r \in RowIds, c \in Children : InteriorUpdate(r, c)
    \/ \E r \in RowIds : InteriorDelete(r)
    \/ InteriorDefragment

SpecPage == Init /\ [][NextPage]_vars

(***************************************************************************)
(* Calls on a leaf page with payloads of three lengths.                    *)
(***************************************************************************)
NextLeaf ==
    \/ LeafInitEmpty
    \/ \E r \in MixedRowIds, p \in MixedPayloads : LeafInsert(r, p)
    \/ \E r \in MixedRowIds, p \in MixedPayloads : LeafUpdate(r, p)
    \/ \E r \in MixedRowIds : LeafDelete(r)
    \/ LeafDefragment

SpecLeaf == Init /\ [][NextLeaf]_vars

(***************************************************************************)
(* Inserts and updates on a leaf and on an interior page, with two leaf    *)
(* payloads of one length: both kinds of page fill up to their last byte.  *)
(***************************************************************************)
NextUpdate ==
    \/ LeafInitEmpty
    \/ \E r \in MixedRowIds, p \in SameSizePayloads : LeafInsert(r, p)
    \/ \E r \in MixedRowIds, p \in SameSizePayloads : LeafUpdate(r, p)
    \/ InteriorInitEmpty
    \/ \E r \in RowIds, c \in Children : InteriorInsert(r, c)
    \/ \E r \in RowIds, c \in Children : InteriorUpdate(r, c)

SpecUpdate == Init /\ [][NextUpdate]_vars

(***************************************************************************)
(* Inserts, deletes and compactions on a leaf of up to three cells and on  *)
(* an interior page.                                                        *)
(***************************************************************************)
NextDelete ==
    \/ LeafInitEmpty
    \/ \E r \in RowIds, p \in ShortPayloads : LeafInsert(r, p)
    \/ \E r \in RowIds : LeafDelete(r)
    \/ LeafDefragment
    \/ InteriorInitEmpty
    \/ \E r \in RowIds, c \in Children : InteriorInsert(r, c)
    \/ \E r \in RowIds : InteriorDelete(r)
    \/ InteriorDefragment

SpecDelete == Init /\ [][NextDelete]_vars

(***************************************************************************)
(* A leaf page built in a buffer, written to the first data page with      *)
(* DiskManager::write_page and read back with DiskManager::read_page.      *)
(***************************************************************************)
\* the rows of the leaf pages that make the trip
TripRowIds == {1, 2}
TripPayloads == {<<1, 2, 3, 4, 5>>}

NextRoundTrip ==
    \/ LeafInitEmpty
    \/ \E r \in TripRowIds, p \in TripPayloads : LeafInsert(r, p)
    \/ DmNewPage
    \/ DmWritePage(FIRST_DATA_PAGE_ID, tpage)
    \/ DmReadPage(FIRST_DATA_PAGE_ID)

SpecRoundTrip == Init /\ [][NextRoundTrip]_vars

(***************************************************************************)
(* Calls of the varint codec over one buffer: values are written through   *)
(* a write cursor, then read back through a read cursor from the start.    *)
(* cresult.index counts the calls made through the current cursor.         *)
(***************************************************************************)
VarintEncode(value) ==
    /\ cursor.kind = "write"
    /\ cresult.index < MaxVarints
    /\ \E r \in {varint_encode(value, cbuf, cursor.pos)} :
           /\ cbuf' = r.buf
           /\ cursor' = [cursor EXCEPT !.pos = r.pos]
           /\ encoded' = IF r.status = "Ok"
                         THEN Append(encoded, [value |-> value, signed |-> FALSE])
                         ELSE encoded
           /\ cresult' = CResult("encode", r.status, value, r.n, cresult.index + 1)
    /\ UNCHANGED <<storageVars, pageVars, sqlVars>>

VarintEncodeSigned(value) ==
    /\ cursor.kind = "write"
    /\ cresult.index < MaxVarints
    /\ \E r \in {varint_encode_signed(value, cbuf, cursor.pos)} :
           /\ cbuf' = r.buf
           /\ cursor' = [cursor EXCEPT !.pos = r.pos]
           /\ encoded' = IF r.status = "Ok"
                         THEN Append(encoded, [value |-> value, signed |-> TRUE])
                         ELSE encoded
           /\ cresult' = CResult("encode_signed", r.status, value, r.n, cresult.index + 1)
    /\ UNCHANGED <<storageVars, pageVars, sqlVars>>

\* Cursor::new(&buf[..]) once the write cursor is gone
ReadCursor ==
    /\ cursor.kind = "write"
    /\ cursor' = [kind |-> "read", pos |-> 0]
    /\ cresult' = CResult("read_cursor", "Ok", u64_zero, 0, 0)
    /\ UNCHANGED <<cbuf, encoded, storageVars, pageVars, sqlVars>>

VarintDecode ==
    /\ cursor.kind = "read"
    /\ cresult.index < MaxVarints
    /\ \E r \in {varint_decode(cbuf, cursor.pos)} :
           /\ cursor' = [cursor EXCEPT !.pos = r.pos]
           /\ cresult' = CResult("decode", r.status, r.value, 0, cresult.index + 1)
    /\ UNCHANGED <<cbuf, encoded, storageVars, pageVars, sqlVars>>

VarintDecodeSigned ==
    /\ cursor.kind = "read"
    /\ cresult.index < MaxVarints
    /\ \E r \in {varint_decode_signed(cbuf, cursor.pos)} :
           /\ cursor' = [cursor EXCEPT !.pos = r.pos]
           /\ cresult' = CResult("decode_signed", r.status, r.value, 0, cresult.index + 1)
    /\ UNCHANGED <<cbuf, encoded, storageVars, pageVars, sqlVars>>

NextVarint ==
    \/ \E v \in VarintValues : VarintEncode(v)
    \/ \E v \in VarintValues : VarintEncodeSigned(v)
    \/ ReadCursor
    \/ VarintDecode
    \/ VarintDecodeSigned

SpecVarint == Init /\ [][NextVarint]_vars

(***************************************************************************)
(* Decodes of bytes the codec did not write: a buffer of stored bytes is   *)
(* given to a read cursor, as Record::deserialize gets it from its caller. *)
(***************************************************************************)
\* the longest run of continuation bytes tried: one more than a code may hold
MaxContinuation == MAX_VARINT_BYTES + 1
\* continuation bytes (high bit set) with all or none of their value bits set,
\* and last bytes (high bit clear) with value bits 0, 1, 2 and 127
ContinuationBytes == {128, 255}
LastBytes == {0, 1, 2, 127}

\* k equal continuation bytes, a last byte, zeroes up to the end of the buffer
StoredCode(k, continuation, last) ==
    CopyInto(Zeros(VarintBufLen), 0, [i \in 1..k |-> continuation] \o <<last>>)

\* Cursor::new(&bytes[..]) over bytes read from storage
VarintFill(bytes) ==
    /\ cbuf' = bytes
    /\ cursor' = [kind |-> "read", pos |-> 0]
    /\ encoded' = <<>>
    /\ cresult' = CResult("fill", "Ok", u64_zero, 0, 0)
    /\ UNCHANGED <<storageVars, pageVars, sqlVars>>

NextDecode ==
    \/ \E k \in 0..MaxContinuation, c \in ContinuationBytes, l \in LastBytes :
           VarintFill(StoredCode(k, c, l))
    \/ VarintDecode

SpecDecode == Init /\ [][NextDecode]_vars

(***************************************************************************)
(* Calls on one parser.  pstate is "none" before Parser::new, "ready"      *)
(* while the parser can be called, "ended" once next() has returned None,  *)
(* and "consumed" once expr(self) has taken the parser.  presult.consumed  *)
(* counts the characters the last call took from the text, and             *)
(* presult.took_peeked tells whether the call began with a token in the    *)
(* lexer's lookahead slot.                                                 *)
(***************************************************************************)
ParserNew(sources) ==
    /\ pstate = "none"
    /\ \E source \in sources :
           /\ lexer' = Lexer_new(source)
           /\ presult' = PResult("new", FALSE, POk(<<>>, <<>>), 0, FALSE)
    /\ pstate' = "ready"
    /\ UNCHANGED <<storageVars, pageVars, codecVars>>

\* Iterator for Parser, next(); a call after the end is a call like any other
ParserNext ==
    /\ pstate \in {"ready", "ended"}
    /\ \E n \in {Parser_next(lexer)}, r \in {stmt(lexer)} :
           /\ lexer' = n.lx
           /\ pstate' = IF n.item = None THEN "ended" ELSE "ready"
           /\ presult' = PResult("next", n.item # None, r,
                                 Len(lexer.rest) - Len(n.lx.rest), lexer.peeked # None)
    /\ UNCHANGED <<storageVars, pageVars, codecVars>>

\* Parser::expr(self)
ParseExpr ==
    /\ pstate = "ready"
    /\ \E r \in {Parser_expr(lexer)} :
           /\ lexer' = r.lx
           /\ presult' = PResult("expr", FALSE, r, Len(lexer.rest) - Len(r.lx.rest),
                                 lexer.peeked # None)
    /\ pstate' = "consumed"
    /\ UNCHANGED <<storageVars, pageVars, codecVars>>

NextExpr ==
    \/ ParserNew(ExprSources)
    \/ ParseExpr

SpecExpr == Init /\ [][NextExpr]_vars

NextSql ==
    \/ ParserNew(SqlSources)
    \/ ParserNext

SpecSql == Init /\ [][NextSql]_vars

\* a caller that drains the iterator keeps calling next() until it returns None
SpecSqlFair == SpecSql /\ WF_vars(ParserNext)

(***************************************************************************)
(* Properties of the page cache.                                           *)
(***************************************************************************)
\* the data region page p is expected to hold: the region last written through
\* a PinGuard, or the region on disk if p was never written through one
ExpectedRegion(p) ==
    IF written[p] # <<>> THEN written[p]
    ELSE Slice(file, page_offset(p), page_offset(p) + PAGE_DATA_END)

\* C1: a frame whose pin count is above zero keeps its bound page id in every
\* step, and keeps its bytes in every step except a store through its own guard;
\* in particular fetch_page and new_page never evict or overwrite it.
C1_PinnedFrameKept ==
    [][\A f \in FrameIds :
          frames[f].pin_count > 0 =>
              /\ frames'[f].page_id = frames[f].page_id
              /\ (result'.op # "page_mut" \/ guard # Some(f)) =>
                     frames'[f].data = frames[f].data]_vars

\* C1 witness: new_page has replaced a victim while another frame was pinned
C1_Witness ==
    /\ result.op = "new_page" /\ result.status = "Ok"
    /\ \E f \in FrameIds : guard # Some(f) /\ frames[f].pin_count > 0
                           /\ frames[f].page_id # None

\* C2: a successful fetch_page(p) hands out a frame whose data region is the one
\* last written to p through a PinGuard (or the region on disk if none was).
C2_NoLostUpdate ==
    (result.op = "fetch_page" /\ result.status = "Ok") =>
        Slice(frames[guard[1]].data, 0, PAGE_DATA_END) = ExpectedRegion(result.page_id[1])

\* C10: the pin count of every frame is the number of PinGuards bound to it that
\* were created and not dropped (the guard held now and the forgotten ones).
LiveGuards(f) == leaked[f] + (IF guard = Some(f) THEN 1 ELSE 0)

C10_PinCountIsLiveGuards ==
    \A f \in FrameIds : frames[f].pin_count = LiveGuards(f)

\* C10 witness: a guard was dropped while another guard of the same frame is
\* still outstanding, so the release took the count from 2 to 1
C10_Witness ==
    /\ result.op = "drop"
    /\ \E f \in FrameIds : frames[f].pin_count = 1 /\ leaked[f] = 1

(***************************************************************************)
(* Properties of the disk manager.                                         *)
(***************************************************************************)
PageOfFile(f, p) == Slice(f, page_offset(p), page_offset(p) + PAGE_SIZE)

\* C3: after every completed disk-manager call the file length is a multiple of
\* PAGE_SIZE and the page count stored in the header page is
\* file_length / PAGE_SIZE.
C3_HeaderMatchesFile ==
    /\ Len(file) % PAGE_SIZE = 0
    /\ read_u64(file, PAGE_COUNT_OFFSET) = Len(file) \div PAGE_SIZE

\* C8: a read_page(id) that follows a successful write_page(id, X) succeeds and
\* returns X's data region followed by the checksum of that region; the write
\* changes no page other than id and not the file length.
C8_WriteThenRead ==
    [][/\ (/\ result.op = "write_page" /\ result.status = "Ok"
           /\ result'.op = "read_page" /\ result'.page_id = result.page_id) =>
              /\ result'.status = "Ok"
              /\ Slice(read_buf', 0, PAGE_DATA_END) = Slice(write_buf, 0, PAGE_DATA_END)
              /\ stored_page_checksum(read_buf') = crc32(Slice(write_buf, 0, PAGE_DATA_END))
       /\ (result'.op = "write_page" /\ result'.status = "Ok") =>
              /\ Len(file') = Len(file)
              /\ \A q \in 0..(page_count - 1) :
                     q # result'.page_id[1] => PageOfFile(file', q) = PageOfFile(file, q)
      ]_vars

\* C8 witness: a page read back right after it was written, the buffer handed to
\* write_page carrying checksum bytes that are not the checksum of its data
C8_Witness ==
    /\ result.op = "read_page" /\ result.status = "Ok"
    /\ write_buf # ZeroPage
    /\ ~checksum_matches(write_buf)
    /\ Slice(read_buf, 0, PAGE_DATA_END) = Slice(write_buf, 0, PAGE_DATA_END)
    /\ read_buf # write_buf

\* C9: read_page(id) and write_page(id) with id >= page_count fail with
\* InvalidPageId(id) and change neither the file nor the page count (nor the
\* caller's read buffer).
C9_OutOfRangeRejected ==
    [][(/\ result'.op \in {"read_page", "write_page"}
        /\ result'.page_id[1] >= page_count) =>
           /\ result'.status = "InvalidPageId"
           /\ file' = file
           /\ page_count' = page_count
           /\ read_buf' = read_buf]_vars

\* C9 witness: write_page and read_page were rejected for id = page_count
C9_Witness ==
    /\ result.op \in {"read_page", "write_page"}
    /\ result.status = "InvalidPageId"
    /\ result.page_id = Some(page_count)
    /\ page_count > 1

(***************************************************************************)
(* Properties of the table pages.                                          *)
(***************************************************************************)
\* the PageSpec of the page kind the buffer was initialised as
SpecOf(page) == IF page_type(page) = LEAF_PAGE_TYPE THEN LEAF_SPEC ELSE INTERIOR_SPEC

Slots(page) == 0..(cell_count(page) - 1)

\* offset stored in a slot, first byte after the cell it points to, row id of the cell
CellStart(page, slot) == slot_offset(page, SpecOf(page), slot).value
CellEnd(page, slot) ==
    CellStart(page, slot)
        + (IF page_type(page) = LEAF_PAGE_TYPE
           THEN LEAF_CELL_PREFIX_SIZE + read_u16(page, CellStart(page, slot))
           ELSE INTERIOR_CELL_SIZE)
CellRowId(page, slot) ==
    IF page_type(page) = LEAF_PAGE_TYPE
    THEN read_u64(page, CellStart(page, slot) + PAYLOAD_LEN_SIZE)
    ELSE read_u64(page, CellStart(page, slot) + LEFT_CHILD_SIZE)

\* C4: after every table-page call, successful or failed, on a leaf or an
\* interior page, the row ids decoded from the cells in slot order are strictly
\* ascending.
C4_RowIdsAscending ==
    \A i, j \in Slots(tpage) : i < j => CellRowId(tpage, i) < CellRowId(tpage, j)

\* C4 witness: an insert succeeded in front of a cell that was on the page before
\* it, so the lower row id sits at the lower offset
C4_Witness ==
    /\ tresult.op = "insert" /\ tresult.status = "Ok"
    /\ cell_count(tpage) >= 2
    /\ CellStart(tpage, 0) < CellStart(tpage, 1)

\* C5: on a leaf page search(r) returns the payload of the last successful
\* insert or update of r, and nothing if r was never inserted or was deleted last.
C5_LeafIsMap ==
    page_type(tpage) = LEAF_PAGE_TYPE =>
        \A r \in RowIds :
            TableLeafPageRef_search(tpage, r) = [status |-> "Ok", value |-> rows[r]]

\* C5 witness: a search returned the longer payload from a page whose content
\* region also holds a dead cell, left by an update or a delete
C5_Witness ==
    /\ page_type(tpage) = LEAF_PAGE_TYPE
    /\ tresult = TResult("search", "Ok", Some(<<11, 12, 13, 14, 15, 16>>))
    /\ cell_count(tpage) = 1
    /\ content_start(tpage) < CellStart(tpage, 0)

\* C6: no live cell overlaps the checksum field [PAGE_SIZE - 4, PAGE_SIZE).
C6_CellsOutsideChecksum ==
    \A i \in Slots(tpage) : CellEnd(tpage, i) <= PAGE_DATA_END

\* C7: after every table-page call the layout is well formed: header_size +
\* 2 * cell_count <= content_start <= PAGE_SIZE, every slot offset lies in
\* [content_start, PAGE_SIZE), every live cell ends at or before PAGE_SIZE, and no
\* two live cells overlap.
C7_LayoutWellFormed ==
    /\ SpecOf(tpage).header_size + SLOT_WIDTH * cell_count(tpage) <= content_start(tpage)
    /\ content_start(tpage) <= PAGE_SIZE
    /\ \A i \in Slots(tpage) :
           /\ content_start(tpage) <= CellStart(tpage, i)
           /\ CellStart(tpage, i) < PAGE_SIZE
           /\ CellEnd(tpage, i) <= PAGE_SIZE
    /\ \A i, j \in Slots(tpage) :
           i # j => \/ CellEnd(tpage, i) <= CellStart(tpage, j)
                    \/ CellEnd(tpage, j) <= CellStart(tpage, i)

\* C7 witness: a call defragmented, retried and failed with PageFull on a page
\* that holds two cells
C7_Witness ==
    /\ tresult.status = "PageFull"
    /\ cell_count(tpage) >= 2

(***************************************************************************)
(* Clock replacement: a cache over a disk that holds more data pages than  *)
(* the cache has frames, every guard released before the next call.        *)
(***************************************************************************)
\* data pages on disk before the cache is built: one more than there are frames
ClockPages == FrameCount + 1
\* page ids fetched: the data pages and the id past the end
ClockPageIds == FIRST_DATA_PAGE_ID..(ClockPages + 1)

\* tests::create_disk_with_pages: new_page then write_page for each given buffer
RECURSIVE create_disk_with_pages(_, _)
create_disk_with_pages(dm, pages) ==
    IF pages = <<>> THEN dm
    ELSE LET np == DiskManager_new_page(dm.file, dm.page_count)
             w == DiskManager_write_page(np.file, np.page_count, np.page_id, Head(pages))
         IN  create_disk_with_pages([dm EXCEPT !.file = w.file, !.page_count = np.page_count],
                                    Tail(pages))

InitClock ==
    LET dm == create_disk_with_pages(DiskManager_new(<<>>), [i \in 1..ClockPages |-> ZeroPage])
        c == PageCache_new(dm)
    IN  /\ file = c.file
        /\ page_count = c.page_count
        /\ read_buf = ZeroPage
        /\ write_buf = ZeroPage
        /\ frames = c.frames
        /\ page_table = c.page_table
        /\ clock_hand = c.clock_hand
        /\ guard = None
        /\ leaked = [f \in FrameIds |-> 0]
        /\ written = [p \in 0..ClockPages |-> <<>>]
        /\ fetched = Some(<<>>)
        /\ result = Result("new", dm.status, None)
        /\ tpage = init_empty(ZeroPage, LEAF_SPEC).page
        /\ rows = [r \in RowIds |-> None]
        /\ tresult = TResult("init_empty", init_empty(ZeroPage, LEAF_SPEC).status, None)
        /\ tbefore = ZeroPage
        /\ targs = <<>>
        /\ InitCodec
        /\ InitSql

NextClock ==
    \/ \E p \in ClockPageIds : FetchPage(p)
    \/ \E s \in Stores : PageMut(s[1], s[2])
    \/ DropGuard

SpecClock == InitClock /\ [][NextClock]_vars

(***************************************************************************)
(* The victim sweep over frames of every kind: the header page and the     *)
(* data pages of the same disk are fetched, guards are released or         *)
(* forgotten.                                                              *)
(***************************************************************************)
SweepPageIds == HEADER_PAGE_ID..(ClockPages + 1)

NextSweep ==
    \/ \E p \in SweepPageIds : FetchPage(p)
    \/ DropGuard
    \/ ForgetGuard

SpecSweep == InitClock /\ [][NextSweep]_vars

\* the pages bound to some frame
BoundPages == {p \in DOMAIN written : \E f \in FrameIds : frames[f].page_id = Some(p)}

\* C11: at every instant at most FrameCount distinct pages are resident: the page
\* table holds at most FrameCount pages, no two of them in one frame, each in a
\* frame bound to it, and at most FrameCount distinct pages are bound to frames.
C11_ResidentAtMostFrames ==
    /\ Cardinality(DOMAIN page_table) <= FrameCount
    /\ Cardinality(BoundPages) <= FrameCount
    /\ \A p \in DOMAIN page_table :
           /\ page_table[p] \in FrameIds
           /\ frames[page_table[p]].page_id = Some(p)
           /\ \A q \in DOMAIN page_table : page_table[q] = page_table[p] => q = p

\* C11 witness: a fetch succeeded with every frame holding a resident page, after
\* a page modified through the cache was evicted and written back
C11_Witness ==
    /\ result.op = "fetch_page" /\ result.status = "Ok"
    /\ Cardinality(DOMAIN page_table) = FrameCount
    /\ \E q \in DOMAIN written :
           /\ q \notin DOMAIN page_table
           /\ q \notin BoundPages
           /\ written[q] # <<>>
           /\ Slice(file, page_offset(q), page_offset(q) + PAGE_DATA_END) = written[q]

\* a fetch_page step that missed the page table and took a victim
FetchMissStep ==
    /\ result'.op = "fetch_page"
    /\ result'.page_id[1] \notin DOMAIN page_table
    /\ result'.status # "NoEvictableFrame"

\* the frame the sweep of this step returned: the hand stops right after it
VictimOfStep == (clock_hand' + FrameCount - 1) % FrameCount

\* position of frame f in the sweep that starts at the hand
SweepDistance(f) == (f + FrameCount - clock_hand) % FrameCount

\* C12 as stated: with every frame unpinned, the page a fetch evicts had
\* referenced = false when the victim sweep of that fetch started.
C12_EvicteeUnreferencedAtStart ==
    [][(/\ FetchMissStep
        /\ \A f \in FrameIds : frames[f].pin_count = 0
        /\ frames[VictimOfStep].page_id # None) =>
           frames[VictimOfStep].reference = FALSE]_vars

\* C12 amended: with every frame unpinned, the frame a fetch replaces is the first
\* frame after the hand that was unreferenced when the sweep started; if every
\* frame was referenced then, the sweep clears the bits and replaces the frame at
\* the hand, whose page was referenced at the sweep start.
C12_VictimBySecondChance ==
    [][(/\ FetchMissStep
        /\ \A f \in FrameIds : frames[f].pin_count = 0) =>
           /\ result'.status = "Ok" => guard' = Some(VictimOfStep)
           /\ IF \E f \in FrameIds : ~frames[f].reference
              THEN /\ ~frames[VictimOfStep].reference
                   /\ \A f \in FrameIds :
                          ~frames[f].reference =>
                              SweepDistance(VictimOfStep) <= SweepDistance(f)
              ELSE VictimOfStep = clock_hand]_vars

\* C12 witness: a fetch evicted the page at the hand after a sweep that found
\* every frame referenced: the other frames hold pages whose bits it cleared, and
\* the evicted page, modified through the cache, was written back
C12_Witness ==
    /\ result.op = "fetch_page" /\ result.status = "Ok"
    /\ \A f \in FrameIds :
           /\ frames[f].page_id # None
           /\ frames[f].reference = (guard = Some(f))
    /\ clock_hand = advance_clock_hand(guard[1])
    /\ \E q \in DOMAIN written :
           /\ q \notin BoundPages
           /\ written[q] # <<>>
           /\ Slice(file, page_offset(q), page_offset(q) + PAGE_DATA_END) = written[q]

\* the bytes of the cells of a page in slot order: length, row id and payload of
\* a leaf cell, left child and row id of an interior cell
CellsInSlotOrder(page) ==
    [i \in 1..cell_count(page) |-> Slice(page, CellStart(page, i - 1), CellEnd(page, i - 1))]

\* C13: defragment of a valid leaf or interior page succeeds and leaves the cells
\* in slot order, the cell count and, on an interior page, the rightmost child
\* as they were before the call.
C13_DefragmentKeepsContent ==
    tresult.op = "defragment" =>
        /\ tresult.status = "Ok"
        /\ page_type(tpage) = page_type(tbefore)
        /\ cell_count(tpage) = cell_count(tbefore)
        /\ CellsInSlotOrder(tpage) = CellsInSlotOrder(tbefore)
        /\ page_type(tpage) = INTERIOR_PAGE_TYPE =>
               read_u64_at(tpage, INTERIOR_RIGHTMOST_CHILD_OFFSET)
                   = read_u64_at(tbefore, INTERIOR_RIGHTMOST_CHILD_OFFSET)

\* C13 witness: defragment moved the cell of an interior page that had dead
\* space above a live cell
C13_Witness ==
    /\ tresult.op = "defragment" /\ tresult.status = "Ok"
    /\ page_type(tpage) = INTERIOR_PAGE_TYPE
    /\ cell_count(tpage) >= 1
    /\ content_start(tbefore) < content_start(tpage)
    /\ CellStart(tbefore, 0) < CellStart(tpage, 0)

\* sum of the sizes of the cells the first n slots of a page point to
RECURSIVE LiveCellBytes(_, _)
LiveCellBytes(page, n) ==
    IF n = 0 THEN 0
    ELSE (CellEnd(page, n - 1) - CellStart(page, n - 1)) + LiveCellBytes(page, n - 1)

HasRowId(page, row_id) == \E slot \in Slots(page) : CellRowId(page, slot) = row_id

\* bytes a compacted leaf page needs to hold its live cells and one more cell
\* with its slot
LeafBytesWith(page, payload) ==
    LEAF_HEADER_SIZE + SLOT_WIDTH * (cell_count(page) + 1)
        + LiveCellBytes(page, cell_count(page)) + (LEAF_CELL_PREFIX_SIZE + Len(payload))

\* C14: a leaf insert of a row id that is not on the page succeeds if and only
\* if the header, the slots, the live cells and the new cell with its slot fit in
\* PAGE_SIZE bytes, whatever dead space the page carries, and fails with PageFull
\* otherwise.
C14_InsertFitsAfterCompaction ==
    (/\ tresult.op = "insert"
     /\ page_type(tbefore) = LEAF_PAGE_TYPE
     /\ ~HasRowId(tbefore, targs[1])) =>
        IF LeafBytesWith(tbefore, targs[2]) <= PAGE_SIZE
        THEN tresult.status = "Ok"
        ELSE tresult.status = "PageFull"

\* C14 witness: an insert succeeded on a leaf whose free space before the call was
\* smaller than the new cell and its slot, so the cell went in after compaction
C14_Witness ==
    /\ tresult.op = "insert" /\ tresult.status = "Ok"
    /\ page_type(tbefore) = LEAF_PAGE_TYPE
    /\ cell_count(tbefore) >= 1
    /\ content_start(tbefore) - (LEAF_HEADER_SIZE + SLOT_WIDTH * cell_count(tbefore))
           < LEAF_CELL_PREFIX_SIZE + Len(targs[2]) + SLOT_WIDTH
    /\ cell_count(tpage) = cell_count(tbefore) + 1

(***************************************************************************)
(* Further properties of the disk manager.                                 *)
(***************************************************************************)
\* C15: every disk-manager new_page succeeds, returns the page count held before
\* the call, raises the page count by one and makes the file
\* (old page count + 1) * PAGE_SIZE bytes long; a new_page that follows a
\* new_page returns the next id; the new page reads back as a zero data region
\* with a valid checksum.
C15_NewPageSequential ==
    [][result'.op = "new_page" =>
          /\ result'.status = "Ok"
          /\ result'.page_id = Some(page_count)
          /\ page_count' = page_count + 1
          /\ Len(file') = (page_count + 1) * PAGE_SIZE
          /\ result.op = "new_page" => result'.page_id[1] = result.page_id[1] + 1
          /\ LET rd == DiskManager_read_page(file', page_count', page_count, read_buf)
             IN  /\ rd.status = "Ok"
                 /\ Slice(rd.buf, 0, PAGE_DATA_END) = Zeros(PAGE_DATA_END)
                 /\ checksum_matches(rd.buf)]_vars

\* C15 witness: the second new_page on a fresh file returned id 2 after page 1
\* had been written with non-zero bytes
C15_Witness ==
    /\ result.op = "new_page" /\ result.status = "Ok"
    /\ result.page_id = Some(2)
    /\ page_count = 3
    /\ Len(file) = 3 * PAGE_SIZE
    /\ Slice(file, page_offset(1), page_offset(1) + PAGE_DATA_END) # Zeros(PAGE_DATA_END)

\* the data region page p holds for its caller: the region last written to it, or
\* zeroes if it was only allocated
LastWritten(p) == IF written[p] # <<>> THEN written[p] ELSE Zeros(PAGE_DATA_END)

\* C16: opening the file again after a session of new_page calls and of
\* write_page calls on data pages succeeds, changes no byte of the file, reports
\* page_count = file_length / PAGE_SIZE (the count the session ended with), and
\* read_page of every data page then returns the bytes last written to it.
C16_ReopenKeepsState ==
    [][result'.op = "new" =>
          /\ result'.status = "Ok"
          /\ file' = file
          /\ page_count' = page_count
          /\ page_count' = Len(file') \div PAGE_SIZE
          /\ \A p \in FIRST_DATA_PAGE_ID..(page_count' - 1) :
                 LET rd == DiskManager_read_page(file', page_count', p, read_buf)
                 IN  /\ rd.status = "Ok"
                     /\ Slice(rd.buf, 0, PAGE_DATA_END) = LastWritten(p)
                     /\ checksum_matches(rd.buf)]_vars

\* C16 witness: the file was opened again after two new_page calls and a write to
\* page 1, page 2 never written
C16_Witness ==
    /\ result.op = "new" /\ result.status = "Ok"
    /\ page_count = 3
    /\ written[1] # <<>>
    /\ written[2] = <<>>
    /\ Slice(file, page_offset(1), page_offset(1) + PAGE_DATA_END) = written[1]

(***************************************************************************)
(* Properties of flushing and write-back.                                  *)
(***************************************************************************)
\* the frames flush_all refuses: dirty, bound to a page and pinned
DirtyPinnedFrames ==
    {f \in FrameIds : frames[f].dirty /\ frames[f].page_id # None /\ frames[f].pin_count > 0}

DataRegionOnDisk(f, p) == Slice(f, page_offset(p), page_offset(p) + PAGE_DATA_END)

\* C17: flush_all fails with PinnedPage(id) exactly when some frame is dirty,
\* bound to a page and pinned, id being the page of such a frame; when it
\* succeeds no frame is dirty afterwards and the disk holds the data region of
\* every resident page.
C17_FlushAllPinnedOrClean ==
    [][result'.op = "flush_all" =>
          /\ result'.status \in {"Ok", "PinnedPage"}
          /\ (result'.status = "PinnedPage") = (DirtyPinnedFrames # {})
          /\ result'.status = "PinnedPage" =>
                 \E f \in DirtyPinnedFrames : result'.page_id = frames[f].page_id
          /\ result'.status = "Ok" =>
                 /\ \A f \in FrameIds : ~frames'[f].dirty
                 /\ \A p \in DOMAIN page_table' :
                        DataRegionOnDisk(file', p)
                            = Slice(frames'[page_table'[p]].data, 0, PAGE_DATA_END)]_vars

\* C18: flush_page(id) succeeds and changes nothing when id is not in the page
\* table; fails with PinnedPage(id), changing neither the file nor any frame, when
\* the resident frame is pinned; otherwise it succeeds, writes the frame's data
\* region with its checksum over page id exactly when the frame is dirty, changes
\* no other page, and leaves the frame clean.
C18_FlushPage ==
    [][result'.op = "flush_page" =>
          LET page_id == result'.page_id[1]
          IN  /\ page_table' = page_table
              /\ Len(file') = Len(file)
              /\ IF page_id \notin DOMAIN page_table
                 THEN result'.status = "Ok" /\ file' = file /\ frames' = frames
                 ELSE LET f == page_table[page_id]
                      IN  IF frames[f].pin_count > 0
                          THEN /\ result'.status = "PinnedPage"
                               /\ file' = file
                               /\ frames' = frames
                          ELSE /\ result'.status = "Ok"
                               /\ frames' = [frames EXCEPT ![f].dirty = FALSE]
                               /\ IF frames[f].dirty
                                  THEN /\ PageOfFile(file', page_id)
                                              = write_page_checksum(frames[f].data)
                                       /\ \A q \in 0..(page_count - 1) :
                                              q # page_id =>
                                                  PageOfFile(file', q) = PageOfFile(file, q)
                                  ELSE file' = file]_vars

\* C18 witness: flush_page wrote the bytes stored through a PinGuard of page 1,
\* resident in frame 0 of a cache whose other frame was never filled
C18_Witness ==
    /\ result.op = "flush_page" /\ result.status = "Ok"
    /\ result.page_id = Some(1)
    /\ 1 \in DOMAIN page_table /\ page_table[1] = 0
    /\ frames[1].page_id = None
    /\ ~frames[0].dirty /\ frames[0].pin_count = 0
    /\ written[1] # <<>>
    /\ DataRegionOnDisk(file, 1) = written[1]
    /\ DataRegionOnDisk(file, 1) # Zeros(PAGE_DATA_END)

\* the frame whose write-back a step may perform for page p: the victim of a
\* fetch_page or new_page, the resident frame of a flush_page, any frame of a
\* flush_all
WritesBack(f, p) ==
    /\ frames[f].dirty
    /\ frames[f].page_id = Some(p)
    /\ CASE result'.op \in {"fetch_page", "new_page"} -> f = VictimOfStep
         [] result'.op = "flush_page" ->
                /\ result'.page_id = Some(p)
                /\ p \in DOMAIN page_table /\ page_table[p] = f
         [] result'.op = "flush_all" -> TRUE
         [] OTHER -> FALSE

C20_NewPageFailsFast ==
    [][result'.op = "new_page" =>
          /\ (\A f \in FrameIds : frames[f].pin_count > 0) =>
                 result'.status = "NoEvictableFrame"
          /\ result'.status = "NoEvictableFrame" =>
                 /\ guard' = None
                 /\ result'.page_id = None
                 /\ page_count' = page_count
                 /\ file' = file
                 /\ page_table' = page_table]_vars

\* C20 witness: new_page was refused with both frames pinned by outstanding
\* guards of two different pages
C20_Witness ==
    /\ result.op = "new_page" /\ result.status = "NoEvictableFrame"
    /\ \A f \in FrameIds : frames[f].pin_count > 0 /\ frames[f].page_id # None
    /\ frames[0].page_id # frames[1].page_id
    /\ Len(file) = page_count * PAGE_SIZE
    /\ read_u64(file, PAGE_COUNT_OFFSET) = page_count

(***************************************************************************)
(* Checksums against damage of the stored bytes.                           *)
(***************************************************************************)
\* C21: a read_page of a data page that follows the flip of one byte of that
\* page, an intact page until then, fails with InvalidPageChecksum; and whenever
\* read_page succeeds, the page it returns is the stored one and its stored
\* checksum is the checksum of its first PAGE_SIZE - 4 bytes.
C21_DamageIsDetected ==
    [][result'.op = "read_page" =>
          /\ (result.op = "corrupt" /\ result'.page_id = result.page_id) =>
                 result'.status = "InvalidPageChecksum"
          /\ result'.status = "Ok" =>
                 /\ read_buf' = PageOfFile(file, result'.page_id[1])
                 /\ stored_page_checksum(read_buf')
                        = crc32(Slice(read_buf', 0, PAGE_DATA_END))
          /\ (/\ result'.page_id[1] < page_count
              /\ stored_page_checksum(PageOfFile(file, result'.page_id[1]))
                     # crc32(Slice(PageOfFile(file, result'.page_id[1]), 0, PAGE_DATA_END))) =>
                 result'.status = "InvalidPageChecksum"]_vars

\* C21 witness: read_page refused a page written with non-zero bytes whose data
\* region was damaged afterwards, its checksum field still that of the write
C21_Witness ==
    /\ result.op = "read_page" /\ result.status = "InvalidPageChecksum"
    /\ written[result.page_id[1]] # <<>>
    /\ DataRegionOnDisk(file, result.page_id[1]) # written[result.page_id[1]]
    /\ stored_page_checksum(PageOfFile(file, result.page_id[1]))
           = crc32(written[result.page_id[1]])

(***************************************************************************)
(* Routing on an interior page.                                            *)
(***************************************************************************)
\* slots of the page whose separator row id is at least target
SlotsAtOrAbove(page, target) == {s \in Slots(page) : CellRowId(page, s) >= target}

C23_KeyErrorsLeavePage ==
    /\ (tresult.op = "insert" /\ HasRowId(tbefore, targs[1])) =>
           tresult.status = "DuplicateRowId"
    /\ (tresult.op \in {"update", "delete"} /\ ~HasRowId(tbefore, targs[1])) =>
           tresult.status = "RowIdNotFound"
    /\ tresult.status = "DuplicateRowId" =>
           tresult.op = "insert" /\ HasRowId(tbefore, targs[1]) /\ tpage = tbefore
    /\ tresult.status = "RowIdNotFound" =>
           /\ tresult.op \in {"update", "delete"}
           /\ ~HasRowId(tbefore, targs[1])
           /\ tpage = tbefore

\* a duplicate insert into a leaf that has room for the new cell and its slot, with
\* a payload that differs from the stored one
C23_Witness ==
    /\ tresult.op = "insert"
    /\ tresult.status = "DuplicateRowId"
    /\ page_type(tpage) = LEAF_PAGE_TYPE
    /\ rows[targs[1]] # Some(targs[2])
    /\ free_space(tpage, LEAF_SPEC).value >= LEAF_CELL_PREFIX_SIZE + Len(targs[2]) + SLOT_WIDTH

(***************************************************************************)
(* Varint codec.                                                           *)
(***************************************************************************)
\* number of bits up to the highest set bit
RECURSIVE BitLength(_)
BitLength(value) ==
    IF value = <<>> THEN 0
    ELSE IF value[Len(value)] = 1 THEN Len(value)
    ELSE BitLength(SubSeq(value, 1, Len(value) - 1))

\* bytes a value needs at seven bits a byte
ExpectedSize(value) == IF BitLength(value) = 0 THEN 1 ELSE (BitLength(value) + 6) \div 7

\* the zig-zag image of an i64: 2y for y >= 0 and -2y - 1 for y < 0
ZigZagOf(value) ==
    IF value[U64_BITS] = 0
    THEN <<0>> \o SubSeq(value, 1, U64_BITS - 1)
    ELSE <<1>> \o SubSeq(bit_not(value), 1, U64_BITS - 1)

\* bytes taken by the first k values written to the buffer
RECURSIVE BytesBefore(_)
BytesBefore(k) ==
    IF k = 0 THEN 0
    ELSE BytesBefore(k - 1)
             + ExpectedSize(IF encoded[k].signed THEN ZigZagOf(encoded[k].value)
                            ELSE encoded[k].value)

\* C24: an encode that has room writes size(x) bytes, between 1 and 10 (for the
\* signed codec size_signed(y) bytes), and fails only for lack of room; the k-th
\* decode through a read cursor returns the k-th value written, unsigned or
\* zig-zag, and leaves the cursor right after its bytes.
C24_VarintRoundTrip ==
    /\ (cresult.op = "encode" /\ cresult.status = "Ok") =>
           /\ cresult.n = varint_size(cresult.value)
           /\ cresult.n = ExpectedSize(cresult.value)
           /\ cresult.n \in 1..MAX_VARINT_BYTES
           /\ encoded[Len(encoded)] = [value |-> cresult.value, signed |-> FALSE]
           /\ cursor.pos = BytesBefore(Len(encoded))
    /\ (cresult.op = "encode_signed" /\ cresult.status = "Ok") =>
           /\ cresult.n = varint_size_signed(cresult.value)
           /\ cresult.n = ExpectedSize(ZigZagOf(cresult.value))
           /\ cresult.n \in 1..MAX_VARINT_BYTES
           /\ encoded[Len(encoded)] = [value |-> cresult.value, signed |-> TRUE]
           /\ cursor.pos = BytesBefore(Len(encoded))
    /\ (cresult.op = "encode" /\ cresult.status # "Ok") =>
           BytesBefore(Len(encoded)) + ExpectedSize(cresult.value) > VarintBufLen
    /\ (cresult.op = "encode_signed" /\ cresult.status # "Ok") =>
           BytesBefore(Len(encoded)) + ExpectedSize(ZigZagOf(cresult.value)) > VarintBufLen
    /\ (/\ cresult.op = "decode"
        /\ cresult.index <= Len(encoded)
        /\ ~encoded[cresult.index].signed) =>
           /\ cresult.status = "Ok"
           /\ cresult.value = encoded[cresult.index].value
           /\ cursor.pos = BytesBefore(cresult.index)
    /\ (/\ cresult.op = "decode_signed"
        /\ cresult.index <= Len(encoded)
        /\ encoded[cresult.index].signed) =>
           /\ cresult.status = "Ok"
           /\ cresult.value = encoded[cresult.index].value
           /\ cursor.pos = BytesBefore(cresult.index)

\* i64::MIN, written in ten bytes after the two bytes of 128, is decoded second
C24_Witness ==
    /\ cresult.op = "decode_signed"
    /\ cresult.status = "Ok"
    /\ cresult.index = 2
    /\ Len(encoded) = 2
    /\ encoded[1] = [value |-> Pow2(7), signed |-> FALSE]
    /\ encoded[2] = [value |-> Pow2(63), signed |-> TRUE]
    /\ cresult.value = Pow2(63)
    /\ cursor.pos = VarintBufLen

(***************************************************************************)
(* Nested pins.                                                            *)
(***************************************************************************)
\* C27: a fetch_page of a resident page adds exactly one pin to its frame,
\* whatever pins the frame already carries, and touches no other pin count; the
\* release of a guard removes exactly one pin from its frame and touches no other;
\* after either step the frame's pin count is the number of its outstanding
\* guards.
C27_NestedPins ==
    [][/\ (/\ result'.op = "fetch_page"
           /\ result'.status = "Ok"
           /\ result'.page_id[1] \in DOMAIN page_table) =>
              /\ guard' = Some(page_table[result'.page_id[1]])
              /\ \A f \in FrameIds :
                     frames'[f].pin_count =
                         frames[f].pin_count + (IF guard' = Some(f) THEN 1 ELSE 0)
              /\ \A f \in FrameIds :
                     frames'[f].pin_count = leaked'[f] + (IF guard' = Some(f) THEN 1 ELSE 0)
       /\ result'.op = "drop" =>
              /\ guard # None /\ guard' = None
              /\ \A f \in FrameIds :
                     frames'[f].pin_count =
                         frames[f].pin_count - (IF guard = Some(f) THEN 1 ELSE 0)
              /\ \A f \in FrameIds : frames'[f].pin_count = leaked'[f]]_vars

\* a fetch of a resident page whose frame already carried a pin: two outstanding
\* guards on the one frame, pin count 2
C27_Witness ==
    /\ result.op = "fetch_page"
    /\ result.status = "Ok"
    /\ \E f \in FrameIds :
           /\ guard = Some(f)
           /\ leaked[f] = 1
           /\ frames[f].pin_count = 2
           /\ page_table[result.page_id[1]] = f

(***************************************************************************)
(* Page table and frames.                                                  *)
(***************************************************************************)
\* C28: in every state of the page cache the page table maps page p to frame f
\* exactly when frame f is bound to page p.
C28_TableMatchesFrames ==
    \A p \in PageIds, f \in FrameIds :
        (p \in DOMAIN page_table /\ page_table[p] = f) <=> frames[f].page_id = Some(p)

(***************************************************************************)
(* The header page under the page cache.                                   *)
(***************************************************************************)
\* C29: after every call on the page cache, fetch_page(0) and stores through its
\* guard included, the header page on disk records file length / PAGE_SIZE as the
\* page count and DiskManager::new accepts the file.
C29_HeaderSurvivesCache ==
    /\ read_u64(PageOfFile(file, HEADER_PAGE_ID), PAGE_COUNT_OFFSET) * PAGE_SIZE = Len(file)
    /\ DiskManager_new(file).status = "Ok"

(***************************************************************************)
(* A table page across the disk.                                           *)
(***************************************************************************)
\* C30: when read_page returns the page that write_page stored from the leaf
\* buffer, the page read validates as a leaf and search returns on it, for every
\* row id, what it returns on the buffer.
C30_LeafSurvivesRoundTrip ==
    (/\ result.op = "read_page"
     /\ result.status = "Ok"
     /\ validate(tpage, LEAF_SPEC) = "Ok"
     /\ written[result.page_id[1]] = Slice(tpage, 0, PAGE_DATA_END)) =>
        /\ validate(read_buf, LEAF_SPEC) = "Ok"
        /\ \A r \in RowIds :
               TableLeafPageRef_search(read_buf, r) = TableLeafPageRef_search(tpage, r)

\* the tokens of a text, in order
RECURSIVE TokensOf(_)
TokensOf(lx) ==
    LET on_next(n) ==
            IF n.item = None \/ n.item[1].status # "Ok" THEN <<>>
            ELSE <<n.item[1]>> \o TokensOf(n.lx)
    IN  With(Invoke("Lexer_next", <<lx>>), on_next)

IsOperand(token) == token.kind.kind = "Identifier"

\* the positions of the infix operators: the operator tokens that follow an operand
InfixAt(tokens) ==
    {i \in 2..Len(tokens) : ~IsOperand(tokens[i]) /\ IsOperand(tokens[i - 1])}

\* the rows of the binding table, loosest first
RowOf(token) ==
    IF token.kind \in {Keyword("And"), Keyword("Or")} THEN 1
    ELSE IF token.kind.kind \in {"EqualsEquals", "NotEquals", "LessThan", "GreaterThan",
                                 "LessThanOrEqual", "GreaterThanOrEqual"}
    THEN 2
    ELSE IF token.kind.kind \in {"Plus", "Minus"} THEN 3
    ELSE 4

\* the tree the rows fix: an expression splits at its last operator of the loosest
\* row present; with no infix operator left, a prefix operator applies to the rest
RECURSIVE GroupedByRows(_)
GroupedByRows(tokens) ==
    IF InfixAt(tokens) = {}
    THEN IF IsOperand(tokens[1]) THEN Identifier(tokens[1].kind.value)
         ELSE UnaryOp(Op_try_from(tokens[1])[1], GroupedByRows(Tail(tokens)))
    ELSE LET loosest == CHOOSE r \in 1..4 :
                            /\ \E i \in InfixAt(tokens) : RowOf(tokens[i]) = r
                            /\ \A i \in InfixAt(tokens) : RowOf(tokens[i]) >= r
             split == CHOOSE i \in InfixAt(tokens) :
                          /\ RowOf(tokens[i]) = loosest
                          /\ \A j \in InfixAt(tokens) : RowOf(tokens[j]) = loosest => j <= i
         IN  BinaryOp(GroupedByRows(SubSeq(tokens, 1, split - 1)),
                      Op_try_from(tokens[split])[1],
                      GroupedByRows(SubSeq(tokens, split + 1, Len(tokens))))

\* C25: Parser::expr parses every expression of the sources and builds the tree the
\* rows of the binding table fix: an operator of a tighter row groups before one of a
\* looser row, operators of one row group to the left, and a prefix operator takes
\* only the operand after it; `NOT a AND b` is `(NOT a) AND b`, `-a * b` is `(-a) * b`.
C25_TreeFollowsBindingTable ==
    presult.op = "expr" =>
        /\ presult.status = "Ok"
        /\ presult.value = GroupedByRows(TokensOf(Lexer_new(lexer.source)))
        /\ lexer.source = <<"N", "O", "T", " ", "a", " ", "A", "N", "D", " ", "b">> =>
               presult.value = BinaryOp(UnaryOp("Not", Identifier(<<"a">>)), "And",
                                        Identifier(<<"b">>))
        /\ lexer.source = <<"-", " ", "a", " ", "*", " ", "b">> =>
               presult.value = BinaryOp(UnaryOp("Sub", Identifier(<<"a">>)), "Mul",
                                        Identifier(<<"b">>))

\* a + b * c was parsed as a + (b * c), and so was the rest after a prefix operator
C25_Witness ==
    /\ presult.op = "expr"
    /\ lexer.source = <<"-", " ", "a", " ", "+", " ", "b", " ", "*", " ", "N", "O", "T", " ", "c">>
    /\ presult.value = BinaryOp(UnaryOp("Sub", Identifier(<<"a">>)), "Add",
                                BinaryOp(Identifier(<<"b">>), "Mul",
                                         UnaryOp("Not", Identifier(<<"c">>))))

\* what a next() call takes from the lexer: twice the characters left, and one more
\* while a token waits in the lookahead slot
Unread(lx) == 2 * Len(lx.rest) + (IF lx.peeked # None THEN 1 ELSE 0)

\* C26 as stated: every stmt() call consumes at least one character of the text or
\* returns UnexpectedEnd.
C26_EveryCallConsumes ==
    presult.op = "next" => (presult.consumed >= 1 \/ presult.status = "UnexpectedEnd")

\* C26: the statement iterator always terminates: a parser that keeps being called
\* returns None after finitely many items and returns None from then on, because every
\* stmt() call returns UnexpectedEnd or takes something from the lexer, either at least
\* one character of the text or the token the call before left in the lookahead slot,
\* and next() returns None exactly when stmt() returns UnexpectedEnd.
C26_IteratorTerminates ==
    /\ (pstate = "ready") ~> (pstate = "ended")
    /\ [][(pstate \in {"ready", "ended"} /\ presult'.op = "next") =>
              /\ presult'.status # "UnexpectedEnd" => Unread(lexer') < Unread(lexer)
              /\ presult'.yielded <=> presult'.status # "UnexpectedEnd"
              /\ pstate = "ended" => pstate' = "ended"]_vars

\* a call that yielded an item and took nothing but the token in the lookahead slot
C26_Witness ==
    /\ presult.op = "next"
    /\ presult.yielded
    /\ presult.took_peeked
    /\ presult.consumed = 0
    /\ lexer.peeked = None

\* the frames a sweep may take
UnpinnedFrames == {f \in FrameIds : frames[f].pin_count = 0}

\* the unpinned frames whose reference bit is clear when the sweep starts; when
\* there is none, every unpinned frame is passed over once and then is clear
SweepCandidates ==
    IF \E f \in UnpinnedFrames : ~frames[f].reference
    THEN {f \in UnpinnedFrames : ~frames[f].reference}
    ELSE UnpinnedFrames

\* the first candidate in clock order from the hand
FirstInClockOrder ==
    CHOOSE v \in SweepCandidates :
        \A f \in SweepCandidates : SweepDistance(v) <= SweepDistance(f)

\* the unpinned frames the sweep passes over before it stops at frame v
PassedOver(v) ==
    IF \E f \in UnpinnedFrames : ~frames[f].reference
    THEN {f \in UnpinnedFrames : SweepDistance(f) < SweepDistance(v)}
    ELSE UnpinnedFrames \ {v}

\* C31: clock replacement gives every resident page a second chance and then
\* evicts in frame order.  On an empty cache of n frames, after n+1 distinct
\* pages were fetched and released in sequence the first of them is evicted and
\* the other n are resident (pages 0, 1, 2 on 2 frames leave {1, 2}).  In
\* general a fetch that misses while some frame is unpinned takes the first
\* unpinned frame, in clock order from the hand, whose reference bit is clear
\* once the bits of the unpinned frames passed over are cleared; the hand stops
\* right after it, and the bits of the frames not passed over stay as they were.
C31_SecondChanceThenFrameOrder ==
    /\ [](fetched # None =>
              LET pages == fetched[1]
                  n == Len(pages)
              IN  /\ n <= FrameCount => DOMAIN page_table = {pages[i] : i \in 1..n}
                  /\ n = FrameCount + 1 =>
                         /\ DOMAIN page_table = {pages[i] : i \in 2..n}
                         /\ pages[1] \notin DOMAIN page_table
                  /\ (FrameCount = 2 /\ pages = <<0, 1, 2>>) => DOMAIN page_table = {1, 2})
    /\ [][(/\ result'.op = "fetch_page"
           /\ result'.page_id[1] \notin DOMAIN page_table
           /\ UnpinnedFrames # {}) =>
              LET v == FirstInClockOrder
              IN  /\ result'.status # "NoEvictableFrame"
                  /\ clock_hand' = advance_clock_hand(v)
                  /\ result'.status = "Ok" =>
                         /\ guard' = Some(v)
                         /\ frames'[v].page_id = result'.page_id
                  /\ \A f \in FrameIds \ {v} :
                         /\ frames'[f].reference =
                                (frames[f].reference /\ f \notin PassedOver(v))
                         /\ frames'[f].pin_count = frames[f].pin_count
                         /\ frames'[f].page_id = frames[f].page_id]_vars

\* C31 witness: pages 0, 1, ..., n were fetched and released in this order on
\* an empty cache of n frames; page 0 is gone and the others are resident
C31_Witness ==
    /\ fetched = Some([i \in 1..(FrameCount + 1) |-> i - 1])
    /\ guard = None
    /\ HEADER_PAGE_ID \notin DOMAIN page_table
    /\ DOMAIN page_table = 1..FrameCount

\* a step of fetch_page that misses the page table, or of new_page: the calls
\* that need a victim frame
NeedsVictimStep ==
    \/ result'.op = "fetch_page" /\ result'.page_id[1] \notin DOMAIN page_table
    \/ result'.op = "new_page"

\* C32: a fetch_page miss or a new_page fails with NoEvictableFrame if and only
\* if every frame has pin_count > 0; with at least one frame unpinned the sweep
\* finds a victim whatever the hand and the reference bits are, and a call that
\* succeeds hands out a guard on a frame that was unpinned.
C32_NoEvictableFrameIffAllPinned ==
    [][NeedsVictimStep =>
           /\ (result'.status = "NoEvictableFrame") <=>
                  (\A f \in FrameIds : frames[f].pin_count > 0)
           /\ result'.status = "Ok" =>
                  /\ guard' # None
                  /\ frames[guard'[1]].pin_count = 0]_vars

\* C32 witness: a fetch missed and found its victim while every other frame was
\* pinned by a forgotten guard
C32_Witness ==
    /\ result.op = "fetch_page" /\ result.status = "Ok"
    /\ guard # None
    /\ frames[guard[1]].pin_count = 1
    /\ \A f \in FrameIds \ {guard[1]} : leaked[f] >= 1 /\ frames[f].pin_count >= 1

\* C33: a fetch_page of a page that is in the page table succeeds with a guard
\* on the frame the table names, sets that frame's reference bit and raises its
\* pin count by exactly one; the frame's bytes, dirty flag and binding, every
\* other frame, the page table, the clock hand and the file are unchanged.
C33_HitTouchesOnlyHitFrame ==
    [][(/\ result'.op = "fetch_page"
        /\ result'.page_id[1] \in DOMAIN page_table) =>
           LET hit == page_table[result'.page_id[1]]
           IN  /\ result'.status = "Ok"
               /\ guard' = Some(hit)
               /\ frames'[hit].reference = TRUE
               /\ frames'[hit].pin_count = frames[hit].pin_count + 1
               /\ frames'[hit].data = frames[hit].data
               /\ frames'[hit].dirty = frames[hit].dirty
               /\ frames'[hit].page_id = frames[hit].page_id
               /\ \A f \in FrameIds \ {hit} : frames'[f] = frames[f]
               /\ page_table' = page_table
               /\ clock_hand' = clock_hand
               /\ file' = file
               /\ page_count' = page_count]_vars

\* C33 witness: a fetch hit a frame that was dirty and already pinned by a
\* forgotten guard (a miss leaves its frame clean with pin count 1)
C33_Witness ==
    /\ result.op = "fetch_page" /\ result.status = "Ok"
    /\ guard # None
    /\ frames[guard[1]].pin_count = 2
    /\ frames[guard[1]].dirty
    /\ frames[guard[1]].data # ZeroPage
    /\ \E f \in FrameIds \ {guard[1]} : frames[f].page_id # None

\* the (row id, payload) pairs of a leaf page in slot order
LeafCellsInSlotOrder(page) ==
    [i \in 1..cell_count(page) |->
        <<CellRowId(page, i - 1),
          Slice(page, CellStart(page, i - 1) + LEAF_CELL_PREFIX_SIZE, CellEnd(page, i - 1))>>]

\* C34: when a leaf insert or update fails with PageFull, the cell count and the
\* sequence of (row id, payload) cells in slot order are what they were before
\* the call, whether or not the failed call compacted the page.
C34_PageFullKeepsContent ==
    (/\ tresult.op \in {"insert", "update"}
     /\ tresult.status = "PageFull"
     /\ page_type(tbefore) = LEAF_PAGE_TYPE) =>
        /\ page_type(tpage) = LEAF_PAGE_TYPE
        /\ validate(tpage, LEAF_SPEC) = "Ok"
        /\ cell_count(tpage) = cell_count(tbefore)
        /\ LeafCellsInSlotOrder(tpage) = LeafCellsInSlotOrder(tbefore)
        /\ \A r \in RowIds :
               TableLeafPageRef_search(tpage, r) = TableLeafPageRef_search(tbefore, r)

\* C34 witness: an update failed with PageFull after it had compacted the page
C34_Witness ==
    /\ tresult.op = "update" /\ tresult.status = "PageFull"
    /\ page_type(tbefore) = LEAF_PAGE_TYPE
    /\ cell_count(tbefore) >= 1
    /\ tpage # tbefore
    /\ content_start(tpage) > content_start(tbefore)

\* size of the cell the slot of row_id points to on a leaf that holds row_id
LeafCellSizeOf(page, row_id) ==
    LET slot == CHOOSE s \in Slots(page) : CellRowId(page, s) = row_id
    IN  CellEnd(page, slot) - CellStart(page, slot)

\* an update of a row id the leaf held, to a payload whose cell has another size
\* than the cell the row had
IsResizingUpdate ==
    /\ tresult.op = "update"
    /\ page_type(tbefore) = LEAF_PAGE_TYPE
    /\ HasRowId(tbefore, targs[1])
    /\ LeafCellSizeOf(tbefore, targs[1]) # LEAF_CELL_PREFIX_SIZE + Len(targs[2])

\* bytes a compacted leaf page needs to hold all its live cells, the cell an
\* update replaces included, and the replacement cell, with no further slot
LeafBytesWithReplacement(page, payload) ==
    LEAF_HEADER_SIZE + SLOT_WIDTH * cell_count(page)
        + LiveCellBytes(page, cell_count(page)) + (LEAF_CELL_PREFIX_SIZE + Len(payload))

\* C35: a leaf update of a row id on the page to a payload of another size
\* succeeds if and only if the header, the slots, every live cell (the old cell
\* of that row id included) and the new cell fit in PAGE_SIZE bytes, whatever
\* dead space the page carries, and fails with PageFull otherwise.
C35_ResizingUpdateFitsBesideOldCell ==
    IsResizingUpdate =>
        IF LeafBytesWithReplacement(tbefore, targs[2]) <= PAGE_SIZE
        THEN tresult.status = "Ok"
        ELSE tresult.status = "PageFull"

\* C35 witness: a resizing update succeeded on a leaf whose free space before the
\* call was smaller than the new cell, so the cell went in after compaction
C35_Witness ==
    /\ IsResizingUpdate /\ tresult.status = "Ok"
    /\ content_start(tbefore) - (LEAF_HEADER_SIZE + SLOT_WIDTH * cell_count(tbefore))
           < LEAF_CELL_PREFIX_SIZE + Len(targs[2])
    /\ TableLeafPageRef_search(tpage, targs[1]).value = <<targs[2]>>

\* an update that takes the in-place path: a leaf update of a row id on the page
\* whose new cell is as long as the old one, or an interior update of a row id
\* on the page
IsInPlaceUpdate ==
    /\ tresult.op = "update"
    /\ page_type(tbefore) \in {LEAF_PAGE_TYPE, INTERIOR_PAGE_TYPE}
    /\ HasRowId(tbefore, targs[1])
    /\ page_type(tbefore) = LEAF_PAGE_TYPE =>
           LeafCellSizeOf(tbefore, targs[1]) = LEAF_CELL_PREFIX_SIZE + Len(targs[2])

\* the cell an update of the page with these arguments encodes
UpdatedCell(page, args) ==
    IF page_type(page) = LEAF_PAGE_TYPE
    THEN leaf_cell_writer(args[1], args[2])
    ELSE encode_interior_cell(args[2], args[1])

\* C36: an update that keeps the cell size (every interior update, and a leaf
\* update to a payload of the old length) succeeds whatever the free space is
\* and writes the new cell over the old one: the free space, the content start,
\* the cell count, the slot directory and every byte outside that cell are as
\* before the call.
C36_SameSizeUpdateInPlace ==
    IsInPlaceUpdate =>
        LET slot == CHOOSE s \in Slots(tbefore) : CellRowId(tbefore, s) = targs[1]
            from == CellStart(tbefore, slot)
            to == CellEnd(tbefore, slot)
        IN  /\ tresult.status = "Ok"
            /\ free_space(tpage, SpecOf(tpage)) = free_space(tbefore, SpecOf(tbefore))
            /\ content_start(tpage) = content_start(tbefore)
            /\ cell_count(tpage) = cell_count(tbefore)
            /\ \A s \in Slots(tbefore) : CellStart(tpage, s) = CellStart(tbefore, s)
            /\ \A i \in 1..PAGE_SIZE : (i <= from \/ i > to) => tpage[i] = tbefore[i]
            /\ Slice(tpage, from, to) = UpdatedCell(tbefore, targs)

\* C36 witness: a leaf update replaced a payload by another one of the same
\* length on a page whose free space was zero
C36_Witness ==
    /\ IsInPlaceUpdate /\ tresult.status = "Ok"
    /\ page_type(tbefore) = LEAF_PAGE_TYPE
    /\ free_space(tbefore, LEAF_SPEC).value = 0
    /\ tpage # tbefore
    /\ TableLeafPageRef_search(tpage, targs[1]).value = <<targs[2]>>

\* an interior update replaced a left child on a page whose free space was zero
C36_InteriorFull ==
    /\ IsInPlaceUpdate /\ tresult.status = "Ok"
    /\ page_type(tbefore) = INTERIOR_PAGE_TYPE
    /\ free_space(tbefore, INTERIOR_SPEC).value = 0
    /\ tpage # tbefore

\* first byte after the slot directory of a page
SlotDirEnd(page) == slot_dir_end_for_count(SpecOf(page), cell_count(page)).value

\* C37: a successful delete on a leaf or an interior page lowers the cell count
\* by one, raises the free space by the slot width, leaves the content start and
\* every byte behind the old slot directory (all cells, the deleted one
\* included) unchanged, and keeps the other slots in their order: the slots
\* before the removed one stay, the slots behind it move down by one.
C37_DeleteRemovesOnlySlot ==
    (/\ tresult.op = "delete" /\ tresult.status = "Ok"
     /\ page_type(tbefore) \in {LEAF_PAGE_TYPE, INTERIOR_PAGE_TYPE}) =>
        /\ HasRowId(tbefore, targs[1])
        /\ LET removed == CHOOSE s \in Slots(tbefore) : CellRowId(tbefore, s) = targs[1]
           IN  /\ cell_count(tpage) = cell_count(tbefore) - 1
               /\ free_space(tpage, SpecOf(tpage)).value
                      = free_space(tbefore, SpecOf(tbefore)).value + SLOT_WIDTH
               /\ content_start(tpage) = content_start(tbefore)
               /\ \A i \in (SlotDirEnd(tbefore) + 1)..PAGE_SIZE : tpage[i] = tbefore[i]
               /\ \A s \in Slots(tpage) :
                      CellStart(tpage, s)
                          = CellStart(tbefore, IF s < removed THEN s ELSE s + 1)
               /\ ~HasRowId(tpage, targs[1])

\* C37 witness: a delete removed the middle one of three leaf cells, whose bytes
\* are still on the page
C37_Witness ==
    /\ tresult.op = "delete" /\ tresult.status = "Ok"
    /\ page_type(tbefore) = LEAF_PAGE_TYPE
    /\ cell_count(tbefore) = 3 /\ cell_count(tpage) = 2
    /\ CellRowId(tbefore, 1) = targs[1]
    /\ CellStart(tpage, 1) = CellStart(tbefore, 2)
    /\ read_u64(tpage, CellStart(tbefore, 1) + PAYLOAD_LEN_SIZE) = targs[1]
    /\ content_start(tpage) < PAGE_SIZE - LiveCellBytes(tpage, cell_count(tpage))

\* a page without dead space: the live cells fill the page from the content
\* start to its end
IsCompact(page) ==
    content_start(page) = PAGE_SIZE - LiveCellBytes(page, cell_count(page))

\* the cells lie on the page in the order defragment writes them: the cell of
\* the first slot at the end of the page, each further cell below the one before
StoredInSlotOrder(page) ==
    \A s \in Slots(page) :
        CellEnd(page, s) = IF s = 0 THEN PAGE_SIZE ELSE CellStart(page, s - 1)

\* a successful defragment of a leaf or an interior page
IsDefragment ==
    /\ tresult.op = "defragment" /\ tresult.status = "Ok"
    /\ page_type(tbefore) \in {LEAF_PAGE_TYPE, INTERIOR_PAGE_TYPE}

\* after a defragment the live cells are the ones the page had, the content
\* starts PAGE_SIZE - (their sizes) and the free space is PAGE_SIZE - header -
\* slots - (their sizes)
NoDeadSpaceAfterDefragment ==
    /\ cell_count(tpage) = cell_count(tbefore)
    /\ LiveCellBytes(tpage, cell_count(tpage)) = LiveCellBytes(tbefore, cell_count(tbefore))
    /\ content_start(tpage) = PAGE_SIZE - LiveCellBytes(tpage, cell_count(tpage))
    /\ free_space(tpage, SpecOf(tpage)).value
           = PAGE_SIZE - SpecOf(tpage).header_size - SLOT_WIDTH * cell_count(tpage)
                 - LiveCellBytes(tpage, cell_count(tpage))

\* C38 as stated: after a defragment the page has no dead space, and a defragment
\* of a page that had none leaves every byte of the page as it was.
C38_CompactDefragmentChangesNothing ==
    IsDefragment =>
        /\ NoDeadSpaceAfterDefragment
        /\ IsCompact(tbefore) => tpage = tbefore

\* C38: after a defragment the page has no dead space: content start = PAGE_SIZE
\* - live cell sizes and free space = PAGE_SIZE - header - 2 * cell count - live
\* cell sizes.  A defragment of a page that had no dead space keeps the content
\* start, the free space, the cell count and the cells in slot order; it keeps
\* every byte of the page when the cells lay in slot order from the end of the
\* page downwards, and otherwise it moves the cells into that order and
\* rewrites the slot offsets.
C38_DefragmentLeavesNoDeadSpace ==
    IsDefragment =>
        /\ NoDeadSpaceAfterDefragment
        /\ StoredInSlotOrder(tpage)
        /\ IsCompact(tbefore) =>
               /\ content_start(tpage) = content_start(tbefore)
               /\ free_space(tpage, SpecOf(tpage)) = free_space(tbefore, SpecOf(tbefore))
               /\ CellsInSlotOrder(tpage) = CellsInSlotOrder(tbefore)
               /\ (tpage = tbefore) <=> StoredInSlotOrder(tbefore)

\* C38 witness: a defragment of an interior page without dead space whose two
\* cells were inserted in descending row id order moved both cells
C38_Witness ==
    /\ IsDefragment /\ IsCompact(tbefore)
    /\ page_type(tbefore) = INTERIOR_PAGE_TYPE
    /\ cell_count(tbefore) = 2
    /\ ~StoredInSlotOrder(tbefore)
    /\ CellStart(tpage, 0) = CellStart(tbefore, 1)
    /\ CellStart(tpage, 1) = CellStart(tbefore, 0)

\* a defragment reclaimed dead space
C38_DeadSpaceReclaimed ==
    /\ IsDefragment /\ ~IsCompact(tbefore)
    /\ cell_count(tbefore) >= 1
    /\ content_start(tpage) > content_start(tbefore)

\* the i-th group of seven bits of a u64, counted from the low end; the bits
\* above bit 63 are zero
SevenBits(value, i) ==
    int_of(SubSeq(value \o repeat_bit(0, 7 * MAX_VARINT_BYTES - U64_BITS), 7 * i + 1, 7 * i + 7))

\* a step of varint_decode that returned a value
IsDecodeOk ==
    /\ cresult'.op = "decode" /\ cresult'.status = "Ok"
    /\ cresult'.index = cresult.index + 1
    /\ cursor.kind = "read"

\* C39 as stated: a decode that reads ten continuation bytes fails with
\* InvalidVarInt, and a decode that returns a value returns every value bit of
\* every byte it consumed: no bits of the code are lost in the u64.
C39_NoTruncatedDecode ==
    [][/\ (/\ cresult'.op = "decode" /\ cresult'.index = cresult.index + 1
           /\ cursor.kind = "read"
           /\ \A i \in 1..MAX_VARINT_BYTES :
                  cursor.pos + i <= Len(cbuf) /\ cbuf[cursor.pos + i] >= 128)
              => cresult'.status = "InvalidVarInt"
       /\ IsDecodeOk =>
              \A i \in 0..(cursor'.pos - cursor.pos - 1) :
                  SevenBits(cresult'.value, i) = cbuf[cursor.pos + i + 1] % 128]_vars

\* ten continuation bytes in a row make the decode fail with InvalidVarInt
C39_TenContinuationBytesRejected ==
    [][(/\ cresult'.op = "decode" /\ cresult'.index = cresult.index + 1
        /\ cursor.kind = "read"
        /\ \A i \in 1..MAX_VARINT_BYTES :
               cursor.pos + i <= Len(cbuf) /\ cbuf[cursor.pos + i] >= 128)
           => cresult'.status = "InvalidVarInt"]_vars

\* a decode returned 0 for the ten bytes 80 80 80 80 80 80 80 80 80 02, the code
\* of 2^64
C39_AcceptedTruncated ==
    /\ cresult.op = "decode" /\ cresult.status = "Ok" /\ cresult.index = 1
    /\ cbuf = StoredCode(MAX_VARINT_BYTES - 1, 128, 2)
    /\ cursor.pos = MAX_VARINT_BYTES
    /\ cresult.value = u64_zero

\* the bytes of page p in the file
PageOnDisk(f, p) == Slice(f, page_offset(p), page_offset(p) + PAGE_SIZE)

\* the frames whose write failed in the step: they were to be written and are
\* still dirty
FailedOnDrop == {f \in FrameIds : Flushable(frames, f) /\ frames'[f].dirty}

\* C40: when the cache is dropped, every frame that is dirty, bound to a page
\* and unpinned is handed to write_page: a write that succeeds leaves the canonical
\* page on disk and the frame clean, a write that fails leaves the frame dirty and
\* does not keep the frames behind it from being written.  A frame that is
\* pinned, clean or unbound is left as it was, and a page that no frame to be
\* written is bound to keeps its bytes on disk.
C40_DropFlushesBestEffort ==
    [][result'.op = "drop_cache" =>
          /\ page_table' = page_table /\ clock_hand' = clock_hand
          /\ page_count' = page_count /\ Len(file') = Len(file)
          /\ \A f \in FrameIds :
                 IF Flushable(frames, f)
                 THEN /\ frames'[f] \in {frames[f], [frames[f] EXCEPT !.dirty = FALSE]}
                      /\ (\A g \in FrameIds :
                              (g > f /\ Flushable(frames, g)) =>
                                  frames[g].page_id # frames[f].page_id) =>
                             \/ PageOnDisk(file', frames[f].page_id[1])
                                    = write_page_checksum(frames[f].data)
                             \/ /\ f \in FailedOnDrop
                                /\ PageOnDisk(file', frames[f].page_id[1])
                                       = PageOnDisk(file, frames[f].page_id[1])
                 ELSE frames'[f] = frames[f]
          /\ \A f \in FailedOnDrop, g \in FrameIds :
                 (g # f /\ Flushable(frames, g)) => ~frames'[g].dirty
          /\ \A p \in 0..(page_count - 1) :
                 (\A f \in FrameIds : Flushable(frames, f) => frames[f].page_id # Some(p)) =>
                     PageOnDisk(file', p) = PageOnDisk(file, p)]_vars

\* C40 witness: the cache was dropped with both frames dirty, unpinned and bound
\* to two pages; the write of frame 0 failed before a byte was written, and the
\* page of frame 1 is on disk with the bytes its guard stored
C40_Witness ==
    /\ result.op = "drop_cache"
    /\ \A f \in FrameIds : frames[f].page_id # None /\ frames[f].pin_count = 0
    /\ frames[0].page_id # frames[1].page_id
    /\ frames[0].dirty /\ ~frames[1].dirty
    /\ written[frames[0].page_id[1]] # <<>>
    /\ DataRegionOnDisk(file, frames[0].page_id[1]) # written[frames[0].page_id[1]]
    /\ written[frames[1].page_id[1]] # <<>>
    /\ DataRegionOnDisk(file, frames[1].page_id[1]) = written[frames[1].page_id[1]]

\* the cache was dropped with a frame that is dirty and pinned by a forgotten
\* guard: the frame is still dirty and its page on disk lacks the stored bytes
C40_PinnedLeftDirty ==
    /\ result.op = "drop_cache"
    /\ \E f \in FrameIds :
           /\ frames[f].dirty /\ frames[f].pin_count > 0 /\ leaked[f] > 0
           /\ frames[f].page_id # None
           /\ DataRegionOnDisk(file, frames[f].page_id[1]) # written[frames[f].page_id[1]]

====
